---- MODULE Spec2Model ----
(***************************************************************************)
(* node-terraform: the terraform command line wrapper, its binary          *)
(* resolvers (inline, strict library, permissive library), the platform    *)
(* mapping tables and the download step of the packaging pipeline.         *)
(***************************************************************************)
EXTENDS Integers, Sequences, FiniteSets, TLC

VARIABLES
  variant,       \* which build of the CLI runs: "inline", "strict", "permissive"
  host,          \* [platform, arch]: process.platform and os.arch()
  pkgLayout,     \* the platform package in node_modules: "absent", "pipeline", "fixture"
  binMode,       \* the binary file the package carries: "missing", "noexec", "exec"
  pc,            \* position of the CLI run
  platformInfo,  \* const platformInfo
  packagePath,   \* let packagePath
  terraformPath, \* const terraformPath (the resolver's resolved value)
  err,           \* the error resolveTerraformBinary() threw / rejected with
  log,           \* observable effects of the run, in order
  installArgs,   \* what the download installer was invoked with
  child,         \* how the spawned terraform process ended
  exit,          \* the CLI process's own exit
  dl,            \* a run of the download step (download-terraform.sh)
  post,          \* a run of the postinstall script
  sync,          \* a run of scripts/sync-versions.js
  dv,            \* a run of scripts/release/determine-versions.sh
  run            \* a run of one of the packaging and release tools

cliVars == <<variant, host, pkgLayout, binMode, pc, platformInfo, packagePath,
             terraformPath, err, log, installArgs, child, exit>>

vars == <<cliVars, dl, post, sync, dv, run>>

\* what a step of one program leaves alone: the runs of the others
nonCliVars == <<dl, post, sync, dv, run>>
nonDlVars == <<cliVars, post, sync, dv, run>>
nonPostVars == <<cliVars, dl, sync, dv, run>>
nonSyncVars == <<cliVars, dl, post, dv, run>>
nonDvVars == <<cliVars, dl, post, sync, run>>
nonRunVars == <<cliVars, dl, post, sync, dv>>

----------------------------------------------------------------------------
(* JavaScript values *)

Null == [tag |-> "null"]
Undefined == [tag |-> "undefined"]
NoError == [kind |-> "none"]
NoPath == << >>

\* platformInfo === null instead of !platformInfo
Falsy_NullOnly(v) == v.tag = "null"

\* !value for the values a table lookup can produce
Falsy(v) == v.tag \in {"null", "undefined"} \/ (v.tag = "number" /\ v.n = 0)

Num(n) == [tag |-> "number", n |-> n]

\* a JavaScript string as a table value
Str(s) == [tag |-> "string", s |-> s]

\* String.prototype.endsWith / startsWith
EndsWith(s, suffix) ==
  Len(s) >= Len(suffix) /\ SubSeq(s, Len(s) - Len(suffix) + 1, Len(s)) = suffix

StartsWith(s, prefix) ==
  Len(s) >= Len(prefix) /\ SubSeq(s, 1, Len(prefix)) = prefix

----------------------------------------------------------------------------
(* Platform mapping tables *)

Info(pkg, subpath, terraformPlatform, terraformArch) ==
  [tag |-> "info", pkg |-> pkg, subpath |-> subpath,
   terraformPlatform |-> terraformPlatform, terraformArch |-> terraformArch]

PLATFORM_MAPPING_NpmArch ==
  << <<"darwin arm64", Info("@jahed/terraform-darwin-arm64", "bin/terraform", "darwin", "arm64")>>,
     <<"darwin x64", Info("@jahed/terraform-darwin-x64", "bin/terraform", "darwin", "amd64")>>,
     <<"linux arm64", Info("@jahed/terraform-linux-arm64", "bin/terraform", "linux", "arm64")>>,
     <<"linux x64", Info("@jahed/terraform-linux-x64", "bin/terraform", "linux", "x64")>>,
     <<"linux arm", Info("@jahed/terraform-linux-arm", "bin/terraform", "linux", "arm")>>,
     <<"win32 arm64", Info("@jahed/terraform-win32-arm64", "terraform.exe", "windows", "arm64")>>,
     <<"win32 x64", Info("@jahed/terraform-win32-x64", "terraform.exe", "windows", "amd64")>>,
     <<"freebsd x64", Info("@jahed/terraform-freebsd-x64", "bin/terraform", "freebsd", "amd64")>>,
     <<"openbsd x64", Info("@jahed/terraform-openbsd-x64", "bin/terraform", "openbsd", "amd64")>>,
     <<"sunos x64", Info("@jahed/terraform-solaris-x64", "bin/terraform", "solaris", "amd64")>>,
     <<"aix x64", Null>>,
     <<"android arm64", Null>>,
     <<"android arm", Null>>,
     <<"android x64", Null>>,
     <<"cygwin x64", Null>>,
     <<"netbsd x64", Null>>,
     <<"haiku x64", Null>> >>

\* src/platform.ts and src/platform.js: entries in insertion order
PLATFORM_MAPPING ==
  << <<"darwin arm64", Info("@jahed/terraform-darwin-arm64", "bin/terraform", "darwin", "arm64")>>,
     <<"darwin x64", Info("@jahed/terraform-darwin-x64", "bin/terraform", "darwin", "amd64")>>,
     <<"linux arm64", Info("@jahed/terraform-linux-arm64", "bin/terraform", "linux", "arm64")>>,
     <<"linux x64", Info("@jahed/terraform-linux-x64", "bin/terraform", "linux", "amd64")>>,
     <<"linux arm", Info("@jahed/terraform-linux-arm", "bin/terraform", "linux", "arm")>>,
     <<"win32 arm64", Info("@jahed/terraform-win32-arm64", "terraform.exe", "windows", "arm64")>>,
     <<"win32 x64", Info("@jahed/terraform-win32-x64", "terraform.exe", "windows", "amd64")>>,
     <<"freebsd x64", Info("@jahed/terraform-freebsd-x64", "bin/terraform", "freebsd", "amd64")>>,
     <<"openbsd x64", Info("@jahed/terraform-openbsd-x64", "bin/terraform", "openbsd", "amd64")>>,
     <<"sunos x64", Info("@jahed/terraform-solaris-x64", "bin/terraform", "solaris", "amd64")>>,
     <<"aix x64", Null>>,
     <<"android arm64", Null>>,
     <<"android arm", Null>>,
     <<"android x64", Null>>,
     <<"cygwin x64", Null>>,
     <<"netbsd x64", Null>>,
     <<"haiku x64", Null>> >>

\* the CLI table with the Windows binaries named like the others
CLI_PLATFORM_MAPPING_NoExe ==
  << <<"darwin arm64", Info("@aluxian/terraform-darwin-arm64", "bin/terraform", "darwin", "arm64")>>,
     <<"darwin x64", Info("@aluxian/terraform-darwin-x64", "bin/terraform", "darwin", "amd64")>>,
     <<"linux arm64", Info("@aluxian/terraform-linux-arm64", "bin/terraform", "linux", "arm64")>>,
     <<"linux x64", Info("@aluxian/terraform-linux-x64", "bin/terraform", "linux", "amd64")>>,
     <<"linux arm", Info("@aluxian/terraform-linux-arm", "bin/terraform", "linux", "arm")>>,
     <<"win32 arm64", Info("@aluxian/terraform-win32-arm64", "bin/terraform", "windows", "arm64")>>,
     <<"win32 x64", Info("@aluxian/terraform-win32-x64", "bin/terraform", "windows", "amd64")>>,
     <<"freebsd x64", Info("@aluxian/terraform-freebsd-x64", "bin/terraform", "freebsd", "amd64")>>,
     <<"openbsd x64", Info("@aluxian/terraform-openbsd-x64", "bin/terraform", "openbsd", "amd64")>>,
     <<"sunos x64", Info("@aluxian/terraform-solaris-x64", "bin/terraform", "solaris", "amd64")>> >>

\* bin/terraform.js: the table the published CLI carries (no null entries)
CLI_PLATFORM_MAPPING ==
  << <<"darwin arm64", Info("@aluxian/terraform-darwin-arm64", "bin/terraform", "darwin", "arm64")>>,
     <<"darwin x64", Info("@aluxian/terraform-darwin-x64", "bin/terraform", "darwin", "amd64")>>,
     <<"linux arm64", Info("@aluxian/terraform-linux-arm64", "bin/terraform", "linux", "arm64")>>,
     <<"linux x64", Info("@aluxian/terraform-linux-x64", "bin/terraform", "linux", "amd64")>>,
     <<"linux arm", Info("@aluxian/terraform-linux-arm", "bin/terraform", "linux", "arm")>>,
     <<"win32 arm64", Info("@aluxian/terraform-win32-arm64", "terraform.exe", "windows", "arm64")>>,
     <<"win32 x64", Info("@aluxian/terraform-win32-x64", "terraform.exe", "windows", "amd64")>>,
     <<"freebsd x64", Info("@aluxian/terraform-freebsd-x64", "bin/terraform", "freebsd", "amd64")>>,
     <<"openbsd x64", Info("@aluxian/terraform-openbsd-x64", "bin/terraform", "openbsd", "amd64")>>,
     <<"sunos x64", Info("@aluxian/terraform-solaris-x64", "bin/terraform", "solaris", "amd64")>> >>

\* Object.keys(table)
ObjectKeys(table) == [i \in DOMAIN table |-> table[i][1]]

\* table[key]: the entry's value, undefined for a key the table does not have
Lookup(table, key) ==
  IF \E i \in DOMAIN table : table[i][1] = key
    THEN table[CHOOSE i \in DOMAIN table : table[i][1] = key][2]
    ELSE Undefined

\* `${platform} ${arch}`
PlatformKey(platform, arch) == platform \o " " \o arch

\* the table each build of the CLI reads
MappingOf(v) == IF v = "inline" THEN CLI_PLATFORM_MAPPING ELSE PLATFORM_MAPPING

RECURSIVE FilterSeq(_, _, _)
FilterSeq(s, table, i) ==
  IF i > Len(s) THEN << >>
  ELSE (IF Lookup(table, s[i]) # Null THEN <<s[i]>> ELSE << >>) \o FilterSeq(s, table, i + 1)

\* Object.keys(PLATFORM_MAPPING).filter(k => PLATFORM_MAPPING[k] !== null)
SupportedCombinations(table) == FilterSeq(ObjectKeys(table), table, 1)

\* getPlatformPackage(): the descriptor, or the not-supported error
getPlatformPackage(v, platform, arch) ==
  LET info == Lookup(MappingOf(v), PlatformKey(platform, arch))
  IN IF Falsy(info)
       THEN [ok |-> FALSE,
             error |-> [kind |-> "UnsupportedPlatform", platform |-> platform, arch |-> arch,
                        supported |-> IF v = "inline" THEN << >>
                                      ELSE SupportedCombinations(PLATFORM_MAPPING)]]
       ELSE [ok |-> TRUE, value |-> info]

\* getTerraformPlatform() / getTerraformArchitecture()
getTerraformPlatform(platform, arch) ==
  LET r == getPlatformPackage("permissive", platform, arch)
  IN IF r.ok THEN [ok |-> TRUE, value |-> r.value.terraformPlatform] ELSE r

getTerraformArchitecture(platform, arch) ==
  LET r == getPlatformPackage("permissive", platform, arch)
  IN IF r.ok THEN [ok |-> TRUE, value |-> r.value.terraformArch] ELSE r

----------------------------------------------------------------------------
(* The platform package on disk and Node's module resolution *)

\* create-package-structure.sh: BINARY_NAME
BINARY_NAME(platform) == IF platform = "win32" THEN "terraform.exe" ELSE "terraform"

\* the "main" field of the package's package.json: generate-package-json.js
\* writes none, the test runner's fixture writes "index.js"
PackageJsonMain(layout) == IF layout = "fixture" THEN {"index.js"} ELSE {}

\* where the package carries the terraform binary
PlacedBinary(layout, platform) ==
  IF layout = "pipeline" THEN "bin/" \o BINARY_NAME(platform) ELSE "bin/terraform"

\* the files of the installed package, relative to its root
PackageFiles(layout, platform, mode) ==
  LET bin == IF mode = "missing" THEN {} ELSE {PlacedBinary(layout, platform)}
  IN CASE layout = "pipeline" -> {"package.json", "README.md"} \cup bin
       [] layout = "fixture" -> {"package.json", "index.js"} \cup bin
       [] OTHER -> {}

\* require.resolve(pkg): the package's entry file, or MODULE_NOT_FOUND
requireResolve(pkg, layout, files) ==
  LET mains == {m \in PackageJsonMain(layout) : m \in files}
      entry == IF mains # {} THEN CHOOSE m \in mains : TRUE ELSE "index.js"
  IN IF layout # "absent" /\ entry \in files
       THEN [ok |-> TRUE, value |-> <<"node_modules", pkg, entry>>]
       ELSE [ok |-> FALSE, value |-> NoPath]

\* path.dirname(p)
Dirname(p) == SubSeq(p, 1, Len(p) - 1)

\* path.resolve(packageRoot, subpath)
PathResolve(root, subpath) == Append(root, subpath)

\* the mode of the file at an absolute path
FileModeAt(p, pkg, layout, platform, mode) ==
  IF Len(p) = 3 /\ p[1] = "node_modules" /\ p[2] = pkg
     /\ p[3] \in PackageFiles(layout, platform, mode)
    THEN (IF p[3] = PlacedBinary(layout, platform) THEN mode ELSE "noexec")
    ELSE "missing"

accessSync_ExistsOnly(fileMode) == fileMode # "missing"

\* fs.accessSync(binaryPath, fs.constants.F_OK | fs.constants.X_OK) does not throw
accessSync(fileMode) == fileMode = "exec"

\* await fileExists(binaryPath) resolves (permissive resolver)
fileExists(fileMode) == fileMode = "exec"

----------------------------------------------------------------------------
(* Errors of the resolvers *)

PackageNotFoundError(pkg) ==
  [kind |-> "PackageNotFound", pkg |-> pkg,
   guidance |-> {"reinstall without --no-optional", "npm install the platform package",
                 "enable optionalDependencies"}]

BinaryNotAccessibleError(pkg, binaryPath) ==
  [kind |-> "BinaryNotAccessible", pkg |-> pkg, path |-> binaryPath,
   guidance |-> {"npm install the platform package"}]

DownloadFailedError == [kind |-> "DownloadFailed"]

AfterMapper_Swallow(v, r) ==
  IF r.ok THEN [pc |-> "mapped", err |-> NoError] ELSE [pc |-> "fallback", err |-> NoError]

\* where the run goes after getPlatformPackage() settled with r
AfterMapper(v, r) ==
  IF r.ok THEN [pc |-> "mapped", err |-> NoError]
  ELSE IF v = "permissive" THEN [pc |-> "fallback", err |-> NoError]
  ELSE [pc |-> "rejected", err |-> r.error]

AfterRequireResolve_NoFallback(v, info, r) ==
  IF r.ok THEN [pc |-> "located", err |-> NoError]
  ELSE [pc |-> "rejected", err |-> PackageNotFoundError(info.pkg)]

AfterRequireResolve_Fallback(v, info, r) ==
  IF r.ok THEN [pc |-> "located", err |-> NoError]
  ELSE [pc |-> "fallback", err |-> NoError]

\* where the run goes after require.resolve(platformInfo.pkg) returned or threw
AfterRequireResolve(v, info, r) ==
  IF r.ok THEN [pc |-> "located", err |-> NoError]
  ELSE IF v = "permissive" THEN [pc |-> "fallback", err |-> NoError]
  ELSE [pc |-> "rejected", err |-> PackageNotFoundError(info.pkg)]

\* the binary access check of each resolver
BinaryAccessible(v, fileMode) ==
  IF v = "permissive" THEN fileExists(fileMode) ELSE accessSync(fileMode)

\* where the run goes after the access check of binaryPath
AfterAccess(v, info, binaryPath, accessible) ==
  IF accessible THEN [pc |-> "resolved", err |-> NoError]
  ELSE IF v = "permissive" THEN [pc |-> "fallback", err |-> NoError]
  ELSE [pc |-> "rejected", err |-> BinaryNotAccessibleError(info.pkg, binaryPath)]

----------------------------------------------------------------------------
(* The download installer the permissive resolver falls back to *)

\* getOutputs(): the configured terraform version and the path the installer fills
ConfiguredVersion == "1.13.1"

getOutputs ==
  [version |-> ConfiguredVersion,
   path |-> <<"node_modules", ".cache", "terraform", ConfiguredVersion, "terraform">>]

\* what install(outputs) downloads: the mapper's vendor naming and the version
InstallRequest(platform, arch, outputs) ==
  LET p == getTerraformPlatform(platform, arch)
      a == getTerraformArchitecture(platform, arch)
  IN IF p.ok /\ a.ok
       THEN [ok |-> TRUE, vendorPlatform |-> p.value, vendorArch |-> a.value,
             version |-> outputs.version]
       ELSE [ok |-> FALSE, error |-> p.error]

NoInstall == [ok |-> FALSE, error |-> NoError]

----------------------------------------------------------------------------
(* The CLI entry point *)

OrUndefined_Dropped(code) == Undefined

\* code || undefined
OrUndefined(code) == IF Falsy(code) THEN Undefined ELSE code

\* process.exit(arg): without an argument the exit code is process.exitCode, unset here
ProcessExit(arg) == IF arg.tag = "undefined" THEN 0 ELSE arg.n % 256

\* the exit codes a terraform child process can end with
ExitCodes == 0 .. 255

NodePlatforms == {"aix", "android", "cygwin", "darwin", "freebsd", "haiku", "linux",
                  "netbsd", "openbsd", "sunos", "win32"}
NodeArchs == {"arm", "arm64", "ia32", "x64"}

Hosts == [platform : NodePlatforms, arch : NodeArchs]

Variants == {"inline", "strict", "permissive"}

Count(ev) == Cardinality({i \in DOMAIN log : log[i] = ev})

\* the package name the resolver of this run looks for
HostDescriptor == Lookup(MappingOf(variant), PlatformKey(host.platform, host.arch))

CliInit ==
  /\ variant \in Variants
  /\ host \in Hosts
  /\ pkgLayout \in {"absent", "pipeline", "fixture"}
  /\ binMode \in {"missing", "noexec", "exec"}
  \* a platform package exists only for a supported host
  /\ Falsy(HostDescriptor) => pkgLayout = "absent"
  /\ pkgLayout = "absent" => binMode = "missing"
  \* Windows has no execute permission bit: a file that exists passes X_OK
  /\ host.platform = "win32" => binMode # "noexec"
  /\ pc = "start"
  /\ platformInfo = Undefined
  /\ packagePath = NoPath
  /\ terraformPath = NoPath
  /\ err = NoError
  /\ log = << >>
  /\ installArgs = NoInstall
  /\ child = [tag |-> "none"]
  /\ exit = [exited |-> FALSE, code |-> 0]

\* const platformInfo = (await) getPlatformPackage()
GetPlatformPackage ==
  /\ pc = "start"
  /\ LET r == getPlatformPackage(variant, host.platform, host.arch)
         next == AfterMapper(variant, r)
     IN /\ platformInfo' = IF r.ok THEN r.value ELSE Undefined
        /\ pc' = next.pc
        /\ err' = next.err
  /\ log' = Append(log, "getPlatformPackage")
  /\ UNCHANGED <<variant, host, pkgLayout, binMode, packagePath, terraformPath,
                 installArgs, child, exit>>
  /\ UNCHANGED nonCliVars

\* packagePath = require.resolve(platformInfo.pkg), and its catch
RequireResolve ==
  /\ pc = "mapped"
  /\ LET r == requireResolve(platformInfo.pkg, pkgLayout,
                             PackageFiles(pkgLayout, host.platform, binMode))
         next == AfterRequireResolve(variant, platformInfo, r)
     IN /\ packagePath' = r.value
        /\ pc' = next.pc
        /\ err' = next.err
  /\ log' = Append(log, "require.resolve")
  /\ UNCHANGED <<variant, host, pkgLayout, binMode, platformInfo, terraformPath,
                 installArgs, child, exit>>
  /\ UNCHANGED nonCliVars

\* packageRoot, binaryPath and the access check of the binary, and its catch
AccessBinary ==
  /\ pc = "located"
  /\ LET packageRoot == Dirname(packagePath)
         binaryPath == PathResolve(packageRoot, platformInfo.subpath)
         mode == FileModeAt(binaryPath, platformInfo.pkg, pkgLayout, host.platform, binMode)
         next == AfterAccess(variant, platformInfo, binaryPath,
                             BinaryAccessible(variant, mode))
     IN /\ terraformPath' = IF next.pc = "resolved" THEN binaryPath ELSE NoPath
        /\ pc' = next.pc
        /\ err' = next.err
  /\ log' = Append(log, "access")
  /\ UNCHANGED <<variant, host, pkgLayout, binMode, platformInfo, packagePath,
                 installArgs, child, exit>>
  /\ UNCHANGED nonCliVars

\* permissive resolver: console.warn(...) once tryPlatformPackage() returned null
Warn ==
  /\ pc = "fallback"
  /\ pc' = "warned"
  /\ log' = Append(log, "console.warn")
  /\ UNCHANGED <<variant, host, pkgLayout, binMode, platformInfo, packagePath,
                 terraformPath, err, installArgs, child, exit>>
  /\ UNCHANGED nonCliVars

\* fallbackToDownload(): getOutputs() and the call of install(outputs)
FallbackToDownload ==
  /\ pc = "warned"
  /\ pc' = "installing"
  /\ installArgs' = InstallRequest(host.platform, host.arch, getOutputs)
  /\ log' = Append(log, "install")
  /\ UNCHANGED <<variant, host, pkgLayout, binMode, platformInfo, packagePath,
                 terraformPath, err, child, exit>>
  /\ UNCHANGED nonCliVars

\* await install(outputs) settles: the binary is at outputs.path, or the
\* installer's error propagates
InstallSettles ==
  /\ pc = "installing"
  /\ \/ /\ installArgs.ok
        /\ pc' = "resolved"
        /\ terraformPath' = getOutputs.path
        /\ err' = NoError
     \/ /\ pc' = "rejected"
        /\ terraformPath' = NoPath
        /\ err' = IF installArgs.ok THEN DownloadFailedError ELSE installArgs.error
  /\ UNCHANGED <<variant, host, pkgLayout, binMode, platformInfo, packagePath,
                 log, installArgs, child, exit>>
  /\ UNCHANGED nonCliVars

\* const terraform = spawn(terraformPath, args, { stdio })
Spawn ==
  /\ pc = "resolved"
  /\ pc' = "running"
  /\ log' = Append(log, "spawn")
  /\ UNCHANGED <<variant, host, pkgLayout, binMode, platformInfo, packagePath,
                 terraformPath, err, installArgs, child, exit>>
  /\ UNCHANGED nonCliVars

\* terraform.on("close", (code) => process.exit(code || undefined)):
\* code is the child's exit code, or null when a signal ended it
ChildClose ==
  /\ pc = "running"
  /\ \E code \in {Num(n) : n \in ExitCodes} \cup {Null} :
       /\ child' = code
       /\ exit' = [exited |-> TRUE, code |-> ProcessExit(OrUndefined(code))]
  /\ pc' = "exited"
  /\ log' = Append(log, "exit")
  /\ UNCHANGED <<variant, host, pkgLayout, binMode, platformInfo, packagePath,
                 terraformPath, err, installArgs>>
  /\ UNCHANGED nonCliVars

CatchExitArg_Missing == Undefined

\* the argument of process.exit in the catch block
CatchExitArg == Num(1)

\* catch (error) { console.error(error); process.exit(1); }
CatchError ==
  /\ pc = "rejected"
  /\ pc' = "exited"
  /\ exit' = [exited |-> TRUE, code |-> ProcessExit(CatchExitArg)]
  /\ log' = log \o <<"console.error", "exit">>
  /\ UNCHANGED <<variant, host, pkgLayout, binMode, platformInfo, packagePath,
                 terraformPath, err, installArgs, child>>
  /\ UNCHANGED nonCliVars

CliNext ==
  \/ GetPlatformPackage
  \/ RequireResolve
  \/ AccessBinary
  \/ Warn
  \/ FallbackToDownload
  \/ InstallSettles
  \/ Spawn
  \/ ChildClose
  \/ CatchError

\* no download step runs beside the CLI
DlIdle == dl = [pc |-> "idle"]
PostIdle == post = [pc |-> "idle"]
SyncIdle == sync = [pc |-> "idle"]
DvIdle == dv = [pc |-> "idle"]
RunIdle == run = [pc |-> "idle"]

Init == CliInit /\ DlIdle /\ PostIdle /\ SyncIdle /\ DvIdle /\ RunIdle

Next == CliNext

Spec == Init /\ [][Next]_vars

----------------------------------------------------------------------------
(* The download step: scripts/platform/download-terraform.sh and its compact form *)

\* argument values the step is run with
Versions == {"1.13.1", "1.6.0-beta1", "v1.13"}
TerraformArchs == {<<"linux", "amd64">>, <<"windows", "amd64">>, <<"Linux", "AMD64">>}
BaseUrls == {"https://releases.hashicorp.com/terraform", "http://mirror.test/terraform"}

\* $VERSION =~ ^[0-9]+\.[0-9]+\.[0-9]+(-[a-z]+[0-9]*)?$ on the versions above
VersionFormatOk(version) == version \in {"1.13.1", "1.6.0-beta1"}

\* "$TERRAFORM_ARCH" as one string
ArchString(a) == a[1] \o "_" \o a[2]

\* $TERRAFORM_ARCH =~ ^[a-z0-9_]+$ on the values above
ArchFormatOk(a) == a[1] \in {"linux", "windows"} /\ a[2] \in {"amd64"}

\* "$TERRAFORM_ARCH" == windows_*
IsWindowsArch(a) == a[1] = "windows"

DOWNLOAD_URL(base, version, a) ==
  base \o "/" \o version \o "/terraform_" \o version \o "_" \o ArchString(a) \o ".zip"

\* the manifest named by the version alone
CHECKSUMS_URL_VersionOnly(base, version) ==
  base \o "/" \o version \o "/" \o version \o "_SHA256SUMS"

CHECKSUMS_URL(base, version) ==
  base \o "/" \o version \o "/terraform_" \o version \o "_SHA256SUMS"

ZIP_FILE(version, a) == "terraform_" \o version \o "_" \o ArchString(a) \o ".zip"

CHECKSUMS_FILE(version) == "terraform_" \o version \o "_SHA256SUMS"

\* the binary the step expects in the archive
DlBinaryName(a) == IF IsWindowsArch(a) THEN "terraform.exe" ELSE "terraform"

\* the SHA-256 digest of the downloaded archive, and the lines the vendor's
\* manifest can carry: the archive's line with the right or a wrong digest, and
\* the line of another archive
ArchiveDigest == "aa11"

ManifestShapes == SUBSET {"good", "bad", "other"}

ManifestLines(shape, version, a) ==
  (IF "good" \in shape THEN {[sum |-> ArchiveDigest, file |-> ZIP_FILE(version, a)]} ELSE {})
  \cup (IF "bad" \in shape THEN {[sum |-> "bb22", file |-> ZIP_FILE(version, a)]} ELSE {})
  \cup (IF "other" \in shape
          THEN {[sum |-> "cc33", file |-> "terraform_" \o version \o "_freebsd_386.zip"]}
          ELSE {})

\* grep "$ZIP_FILE" "$CHECKSUMS_FILE": the manifest lines naming the archive
GrepZipFile(lines, zip) == {l \in lines : l.file = zip}

\* grep "$ZIP_FILE" "$CHECKSUMS_FILE" | sha256sum -c under pipefail: grep finds a
\* line, and every line it passes on names a file in the directory with that digest
ChecksumPipeline(lines, zip, files) ==
  /\ GrepZipFile(lines, zip) # {}
  /\ \A l \in GrepZipFile(lines, zip) : l.file \in files /\ l.sum = ArchiveDigest

\* exit statuses of failing commands, passed on by set -e
CurlFailures == {6, 22}
UnzipFailures == {3, 9}

DlInit ==
  dl \in [pc : {"start"}, script : {"full", "compact"}, argc : {1, 2},
          version : Versions, arch : TerraformArchs, base : BaseUrls,
          skip : {"true", "false"}, manifest : ManifestShapes,
          files : {{}}, fetched : {<< >>}, out : {<< >>},
          verification : {"none"}, extracted : {FALSE}, executed : {FALSE},
          exit : {[exited |-> FALSE, code |-> 0]}]

\* the script ends with the given status after printing msgs
DlEnd(code, msgs) ==
  [dl EXCEPT !.pc = "done", !.exit = [exited |-> TRUE, code |-> code],
             !.out = dl.out \o msgs]

\* argument count and format validation, mkdir -p / cd
DlValidate ==
  /\ dl.pc = "start"
  /\ dl' = IF dl.argc < 2 THEN DlEnd(1, <<"error: usage">>)
           ELSE IF dl.script = "full" /\ ~VersionFormatOk(dl.version)
             THEN DlEnd(1, <<"error: version format">>)
           ELSE IF dl.script = "full" /\ ~ArchFormatOk(dl.arch)
             THEN DlEnd(1, <<"error: arch format">>)
           ELSE [dl EXCEPT !.pc = "ready", !.out = dl.out \o <<"downloading">>]
  /\ UNCHANGED nonDlVars

\* curl -fsSL -o "$ZIP_FILE" "$DOWNLOAD_URL"
DlFetchArchive ==
  /\ dl.pc = "ready"
  /\ LET fetched == Append(dl.fetched, DOWNLOAD_URL(dl.base, dl.version, dl.arch))
     IN \/ dl' = [dl EXCEPT !.pc = "downloaded", !.fetched = fetched,
                            !.files = dl.files \cup {ZIP_FILE(dl.version, dl.arch)}]
        \/ \E status \in CurlFailures :
             dl' = IF dl.script = "full"
                     THEN [DlEnd(1, <<"error: download">>) EXCEPT !.fetched = fetched]
                     ELSE [DlEnd(status, << >>) EXCEPT !.fetched = fetched]
  /\ UNCHANGED nonDlVars

\* SKIP_CHECKSUM_VERIFICATION=true: no manifest is fetched, nothing is verified
DlSkipVerification ==
  /\ dl.pc = "downloaded"
  /\ dl.skip = "true"
  /\ dl' = [dl EXCEPT !.pc = "checked", !.verification = "skipped",
                      !.out = IF dl.script = "full"
                                THEN Append(dl.out, "skipping checksum verification")
                                ELSE dl.out]
  /\ UNCHANGED nonDlVars

\* curl -fsSL -o "$CHECKSUMS_FILE" "$CHECKSUMS_URL"
DlFetchManifest ==
  /\ dl.pc = "downloaded"
  /\ dl.skip # "true"
  /\ LET fetched == Append(dl.fetched, CHECKSUMS_URL(dl.base, dl.version))
     IN \/ dl' = [dl EXCEPT !.pc = "manifest", !.fetched = fetched,
                            !.files = dl.files \cup {CHECKSUMS_FILE(dl.version)}]
        \/ \E status \in CurlFailures :
             dl' = IF dl.script = "full"
                     THEN [dl EXCEPT !.pc = "checked", !.fetched = fetched,
                                     !.verification = "skipped",
                                     !.out = dl.out \o <<"warning: checksums download failed",
                                                         "skipping checksum verification">>]
                     ELSE [DlEnd(status, << >>) EXCEPT !.fetched = fetched]
  /\ UNCHANGED nonDlVars

\* the sha256sum / shasum / neither branches of the verification
DlVerifyChecksum ==
  /\ dl.pc = "manifest"
  /\ \E tool \in {"sha256sum", "shasum", "none"} :
       dl' = IF tool = "none"
               THEN [dl EXCEPT !.pc = "checked", !.verification = "skipped",
                               !.out = IF dl.script = "full"
                                         THEN Append(dl.out, "warning: no checksum tool")
                                         ELSE dl.out]
             ELSE IF ChecksumPipeline(ManifestLines(dl.manifest, dl.version, dl.arch),
                                      ZIP_FILE(dl.version, dl.arch), dl.files)
               THEN [dl EXCEPT !.pc = "checked", !.verification = "passed",
                               !.out = IF dl.script = "full"
                                         THEN Append(dl.out, "checksum verification passed")
                                         ELSE dl.out]
             ELSE DlEnd(1, IF dl.script = "full" THEN <<"error: checksum verification failed">>
                           ELSE << >>)
  /\ UNCHANGED nonDlVars

\* unzip -q "$ZIP_FILE"
DlExtract ==
  /\ dl.pc = "checked"
  /\ LET out == IF dl.script = "full" THEN Append(dl.out, "extracting") ELSE dl.out
     IN \/ \E entries \in SUBSET {"terraform", "terraform.exe"} :
             dl' = [dl EXCEPT !.pc = "extracted", !.extracted = TRUE, !.out = out,
                              !.files = dl.files \cup entries]
        \/ \E status \in UnzipFailures :
             dl' = IF dl.script = "full"
                     THEN [DlEnd(1, <<"error: extract">>) EXCEPT !.out = out \o <<"error: extract">>]
                     ELSE DlEnd(status, << >>)
  /\ UNCHANGED nonDlVars

\* binary name, presence check, chmod +x, smoke test and the success report
DlFinish ==
  /\ dl.pc = "extracted"
  /\ LET name == DlBinaryName(dl.arch)
     IN IF dl.script = "full"
          THEN IF name \notin dl.files
                 THEN dl' = DlEnd(1, <<"error: binary not found">>)
                 ELSE \E runs \in BOOLEAN :
                        dl' = [DlEnd(0, <<IF runs THEN "binary verification passed"
                                          ELSE "warning: binary execution test failed",
                                          "success", "binary location">>)
                                 EXCEPT !.executed = TRUE]
          ELSE IF ~IsWindowsArch(dl.arch) /\ name \notin dl.files
                 THEN dl' = DlEnd(1, << >>)
                 ELSE dl' = DlEnd(0, <<"success">>)
  /\ UNCHANGED nonDlVars

\* no CLI run beside the download step
CliIdle ==
  /\ variant = "inline"
  /\ host = [platform |-> "linux", arch |-> "x64"]
  /\ pkgLayout = "absent"
  /\ binMode = "missing"
  /\ pc = "idle"
  /\ platformInfo = Undefined
  /\ packagePath = NoPath
  /\ terraformPath = NoPath
  /\ err = NoError
  /\ log = << >>
  /\ installArgs = NoInstall
  /\ child = [tag |-> "none"]
  /\ exit = [exited |-> FALSE, code |-> 0]

DlSpecInit == CliIdle /\ DlInit /\ PostIdle /\ SyncIdle /\ DvIdle /\ RunIdle

DlNext ==
  \/ DlValidate
  \/ DlFetchArchive
  \/ DlSkipVerification
  \/ DlFetchManifest
  \/ DlVerifyChecksum
  \/ DlExtract
  \/ DlFinish

SpecDownload == DlSpecInit /\ [][DlNext]_vars

----------------------------------------------------------------------------
(* The postinstall script *)

\* handleDevelopmentInstall(): the simplified mapping, key to package name
DEV_PLATFORM_MAPPING ==
  << <<"darwin arm64", Str("@jahed/terraform-darwin-arm64")>>,
     <<"darwin x64", Str("@jahed/terraform-darwin-x64")>>,
     <<"linux arm64", Str("@jahed/terraform-linux-arm64")>>,
     <<"linux x64", Str("@jahed/terraform-linux-x64")>>,
     <<"linux arm", Str("@jahed/terraform-linux-arm")>>,
     <<"win32 arm64", Str("@jahed/terraform-win32-arm64")>>,
     <<"win32 x64", Str("@jahed/terraform-win32-x64")>>,
     <<"freebsd x64", Str("@jahed/terraform-freebsd-x64")>>,
     <<"openbsd x64", Str("@jahed/terraform-openbsd-x64")>>,
     <<"sunos x64", Str("@jahed/terraform-solaris-x64")>> >>

\* how require('./lib/binaryResolver.js') and resolveTerraformBinary() can end:
\* a path, a rejection with an Error, a rejection with null, a throwing require
ResolverOutcomes == {"resolves", "rejects", "rejects null", "require throws"}

\* tryResolveFromBuiltLibrary(): true, false, or the TypeError its own catch block
\* throws when it reads error.message of a null rejection
tryResolveFromBuiltLibrary(lib, resolver, outcome) ==
  IF ~lib THEN [threw |-> FALSE, value |-> FALSE, msgs |-> <<"lib directory not found">>]
  ELSE IF ~resolver
    THEN [threw |-> FALSE, value |-> FALSE, msgs |-> <<"binaryResolver.js not found">>]
  ELSE IF outcome = "resolves"
    THEN [threw |-> FALSE, value |-> TRUE,
          msgs |-> <<"attempting to validate", "binary resolution validation successful">>]
  ELSE IF outcome = "require throws"
    THEN [threw |-> FALSE, value |-> FALSE,
          msgs |-> <<"binary resolution validation failed">>]
  ELSE IF outcome = "rejects"
    THEN [threw |-> FALSE, value |-> FALSE,
          msgs |-> <<"attempting to validate", "binary resolution validation failed">>]
  ELSE [threw |-> TRUE, value |-> FALSE, msgs |-> <<"attempting to validate">>]

\* handleDevelopmentInstall(): whether the platform is in the simplified mapping
handleDevelopmentInstall(h, layout) ==
  LET platformPackage == Lookup(DEV_PLATFORM_MAPPING, PlatformKey(h.platform, h.arch))
  IN IF Falsy(platformPackage)
       THEN [value |-> FALSE,
             msgs |-> <<"handling development install", "platform not supported",
                        "console.warn: not supported">>]
       ELSE [value |-> TRUE,
             msgs |-> <<"handling development install", "platform validation successful",
                        IF requireResolve(platformPackage.s, layout,
                                          PackageFiles(layout, h.platform, "exec")).ok
                          THEN "platform package successfully resolved"
                          ELSE "platform package not available">>]

MainExitArg_Failure == Num(1)

\* process.exit(0) at the end of main()'s try block and of its catch block
MainExitArg == Num(0)

MainCatchExitArg == Num(0)

PostInit ==
  /\ post \in [pc : {"start"}, lib : BOOLEAN, resolver : BOOLEAN,
               outcome : ResolverOutcomes, host : Hosts,
               layout : {"absent", "pipeline", "fixture"},
               out : {<< >>}, resolvedFromBuilt : {"unset"}, developmentValid : {"unset"},
               exit : {[exited |-> FALSE, code |-> 0]}]
  \* a platform package exists only for a host that has one
  /\ Falsy(Lookup(DEV_PLATFORM_MAPPING, PlatformKey(post.host.platform, post.host.arch)))
       => post.layout = "absent"
  \* without lib/ there is no lib/binaryResolver.js
  /\ ~post.lib => ~post.resolver

\* main(): log, then const resolvedFromBuilt = await tryResolveFromBuiltLibrary()
PostTryBuiltLibrary ==
  /\ post.pc = "start"
  /\ LET r == tryResolveFromBuiltLibrary(post.lib, post.resolver, post.outcome)
         out == post.out \o <<"starting postinstall validation">> \o r.msgs
     IN post' = IF r.threw
                  THEN [post EXCEPT !.pc = "catch", !.out = out]
                ELSE IF r.value
                  THEN [post EXCEPT !.pc = "finish", !.out = Append(out,
                                       "completed successfully using built library"),
                                    !.resolvedFromBuilt = "true"]
                ELSE [post EXCEPT !.pc = "dev", !.out = out, !.resolvedFromBuilt = "false"]
  /\ UNCHANGED nonPostVars

\* if (!resolvedFromBuilt): const developmentValid = await handleDevelopmentInstall()
PostDevelopmentInstall ==
  /\ post.pc = "dev"
  /\ LET r == handleDevelopmentInstall(post.host, post.layout)
     IN post' = [post EXCEPT !.pc = "finish",
                             !.developmentValid = IF r.value THEN "true" ELSE "false",
                             !.out = post.out \o <<"falling back to development install">>
                                       \o r.msgs
                                       \o <<IF r.value THEN "completed successfully"
                                            ELSE "completed with warnings">>]
  /\ UNCHANGED nonPostVars

\* process.exit(0) at the end of the try block
PostExit ==
  /\ post.pc = "finish"
  /\ post' = [post EXCEPT !.pc = "done",
                          !.exit = [exited |-> TRUE, code |-> ProcessExit(MainExitArg)]]
  /\ UNCHANGED nonPostVars

\* main()'s catch block: log, console.warn, process.exit(0)
PostCatch ==
  /\ post.pc = "catch"
  /\ post' = [post EXCEPT !.pc = "done",
                          !.out = post.out \o <<"postinstall script failed unexpectedly",
                                                "console.warn: encountered an error">>,
                          !.exit = [exited |-> TRUE, code |-> ProcessExit(MainCatchExitArg)]]
  /\ UNCHANGED nonPostVars

PostSpecInit == CliIdle /\ DlIdle /\ PostInit /\ SyncIdle /\ DvIdle /\ RunIdle

PostNext ==
  \/ PostTryBuiltLibrary
  \/ PostDevelopmentInstall
  \/ PostExit
  \/ PostCatch

SpecPostinstall == PostSpecInit /\ [][PostNext]_vars

----------------------------------------------------------------------------
(* scripts/sync-versions.js *)

SyncVersions == {"1.5.7", "1.6.0"}

\* keys optionalDependencies can have: two platform packages and another package
SyncPackages == {"@jahed/terraform-linux-x64", "@jahed/terraform-darwin-arm64", "typescript"}

\* getCurrentVersions(): the optionalDependencies named @jahed/terraform-*
TerraformPackages(deps) == {p \in DOMAIN deps : StartsWith(p, "@jahed/terraform-")}

\* analyzeVersionState(versions) of a package.json [version, deps]
analyzeVersionState(packageJson) ==
  LET platformPackages == TerraformPackages(packageJson.deps)
      uniquePlatformVersions == {packageJson.deps[p] : p \in platformPackages}
  IN IF platformPackages = {}
       THEN [status |-> "no-platforms", mainVersion |-> Undefined,
             platformVersion |-> Undefined]
     ELSE IF Cardinality(uniquePlatformVersions) # 1
       THEN [status |-> "platforms-inconsistent", mainVersion |-> Undefined,
             platformVersion |-> Undefined]
     ELSE LET platformVersion == CHOOSE v \in uniquePlatformVersions : TRUE
          IN [status |-> IF packageJson.version = platformVersion
                           THEN "synchronized" ELSE "out-of-sync",
              mainVersion |-> Str(packageJson.version),
              platformVersion |-> Str(platformVersion)]

\* validateVersion(version): semverRegex.test(version) on the values of the model
validateVersion(version) == version \in SyncVersions

\* syncMainToVersion(packageJson, targetVersion)
syncMainToVersion(packageJson, targetVersion) ==
  [packageJson EXCEPT !.version = targetVersion]

\* syncPlatformsToVersion(packageJson, targetVersion)
syncPlatformsToVersion(packageJson, targetVersion) ==
  [packageJson EXCEPT !.deps = [p \in DOMAIN packageJson.deps |->
                                  IF StartsWith(p, "@jahed/terraform-")
                                    THEN targetVersion ELSE packageJson.deps[p]]]

SyncInit ==
  \E in \in [mode : {"check", "version", "latest", "main-to-platforms", "platforms-to-main"},
             version : {"", "1.6.0", "next"}, latest : {"", "1.6.0", "fail"},
             dryRun : BOOLEAN, force : BOOLEAN, backup : BOOLEAN,
             packageJson : [version : SyncVersions,
                            deps : UNION {[ps -> SyncVersions] : ps \in SUBSET SyncPackages}]] :
    \* --version's value and the releases fetch matter in their modes only
    /\ in.mode # "version" <=> in.version = ""
    /\ in.mode # "latest" <=> in.latest = ""
    /\ sync = [pc |-> "start", mode |-> in.mode, version |-> in.version,
               latest |-> in.latest, dryRun |-> in.dryRun, force |-> in.force,
               backup |-> in.backup, packageJson |-> in.packageJson,
               disk |-> in.packageJson, planned |-> in.packageJson,
               target |-> Undefined, out |-> << >>,
               exit |-> [exited |-> FALSE, code |-> 0]]

\* process.exit(code) after printing msgs
SyncEnd(code, msgs) ==
  [sync EXCEPT !.pc = "done", !.exit = [exited |-> TRUE, code |-> code],
               !.out = sync.out \o msgs]

\* getCurrentVersions(), analyzeVersionState(), printVersionStatus(), --check
SyncAnalyze ==
  /\ sync.pc = "start"
  /\ LET analysis == analyzeVersionState(sync.packageJson)
     IN sync' = IF sync.mode = "check"
                  THEN IF analysis.status = "synchronized"
                         THEN SyncEnd(0, <<analysis.status, "all versions are synchronized">>)
                         ELSE SyncEnd(1, <<analysis.status, "suggested actions">>)
                  ELSE [sync EXCEPT !.pc = "target", !.out = Append(sync.out, analysis.status)]
  /\ UNCHANGED nonSyncVars

\* switch (options.mode): the target version
SyncTarget ==
  /\ sync.pc = "target"
  /\ LET analysis == analyzeVersionState(sync.packageJson)
         goOn(t) == [sync EXCEPT !.pc = "plan", !.target = t,
                                 !.out = Append(sync.out, "target version")]
     IN sync' =
          CASE sync.mode = "version" ->
                 IF validateVersion(sync.version) THEN goOn(Str(sync.version))
                 ELSE SyncEnd(1, <<"invalid version format">>)
            [] sync.mode = "latest" ->
                 IF sync.latest = "fail" THEN SyncEnd(1, <<"error: failed to fetch latest">>)
                 ELSE goOn(Str(sync.latest))
            [] sync.mode = "main-to-platforms" -> goOn(analysis.mainVersion)
            [] sync.mode = "platforms-to-main" ->
                 IF analysis.status = "platforms-inconsistent"
                   THEN SyncEnd(1, <<"cannot sync to platform version">>)
                   ELSE goOn(analysis.platformVersion)
  /\ UNCHANGED nonSyncVars

\* the two sync decisions on the deep copy, "no changes needed" and --dry-run
SyncPlan ==
  /\ sync.pc = "plan"
  /\ LET analysis == analyzeVersionState(sync.packageJson)
         syncMain == sync.mode # "platforms-to-main" /\ analysis.mainVersion # sync.target
         syncPlatforms ==
           sync.mode # "main-to-platforms" /\ analysis.platformVersion # sync.target
         afterMain == IF syncMain THEN syncMainToVersion(sync.packageJson, sync.target.s)
                      ELSE sync.packageJson
         afterBoth == IF syncPlatforms THEN syncPlatformsToVersion(afterMain, sync.target.s)
                      ELSE afterMain
         changes == (IF syncMain THEN 1 ELSE 0)
                    + (IF syncPlatforms
                         THEN Cardinality(TerraformPackages(sync.packageJson.deps)) ELSE 0)
     IN sync' = IF changes = 0 THEN SyncEnd(0, <<"no changes needed">>)
                ELSE IF sync.dryRun
                  THEN SyncEnd(0, <<"planned changes", "dry run completed">>)
                ELSE [sync EXCEPT !.pc = "apply", !.planned = afterBoth,
                                  !.out = Append(sync.out, "planned changes")]
  /\ UNCHANGED nonSyncVars

\* confirmChanges(), createBackup(), writePackageJson() and the end of main()
SyncApply ==
  /\ sync.pc = "apply"
  /\ LET confirm == IF sync.force THEN << >> ELSE <<"proceed with these changes?">>
     IN \/ sync' = [SyncEnd(0, confirm \o (IF sync.backup THEN <<"backup created">> ELSE << >>)
                               \o <<"successfully synchronized versions">>)
                      EXCEPT !.disk = sync.planned]
        \/ /\ sync.backup
           /\ sync' = SyncEnd(1, confirm \o <<"error: failed to create backup">>)
  /\ UNCHANGED nonSyncVars

SyncSpecInit == CliIdle /\ DlIdle /\ PostIdle /\ SyncInit /\ DvIdle /\ RunIdle

SyncNext ==
  \/ SyncAnalyze
  \/ SyncTarget
  \/ SyncPlan
  \/ SyncApply

SpecSync == SyncSpecInit /\ [][SyncNext]_vars

----------------------------------------------------------------------------
(* scripts/release/determine-versions.sh *)

\* "${GITHUB_REF_NAME#v}"
StripV(name) == IF StartsWith(name, "v") THEN SubSeq(name, 2, Len(name)) ELSE name

\* $TERRAFORM_VERSION =~ ^[0-9]+\.[0-9]+\.[0-9]+(-[a-z0-9.-]+)?(\+[a-z0-9.-]+)?$
\* on the values of the model
DvVersionFormatOk(version) == version \in {"1.5.7", "1.6.0", "1.7.0", "1.8.0", "1.13.1"}

\* arguments, environment and package.json of a run; TERRAFORM_VERSION is the
\* shell variable, which starts as the environment variable of that name
DvInit ==
  \E in \in [arg : {"", "1.5.7", "cli-version"}, env : {"", "1.6.0"},
             refType : {"", "tag", "branch"}, refName : {"", "v1.7.0", "1.8.0", "main"},
             format : {"github", "json", "env", "xml"},
             packageJson : {"1.13.1", "null", "missing"}, githubOutput : BOOLEAN] :
    dv = [pc |-> "start", arg |-> in.arg, env |-> in.env, refType |-> in.refType,
          refName |-> in.refName, format |-> in.format, packageJson |-> in.packageJson,
          githubOutput |-> in.githubOutput,
          PACKAGE_VERSION |-> "", TERRAFORM_VERSION |-> in.env, source |-> "none",
          out |-> << >>, sink |-> "none", exit |-> [exited |-> FALSE, code |-> 0]]

\* exit with the given status after an error message
DvEnd(code, msg) ==
  [dv EXCEPT !.pc = "done", !.exit = [exited |-> TRUE, code |-> code], !.sink = msg]

\* output format, package.json and its version
DvValidate ==
  /\ dv.pc = "start"
  /\ dv' = IF dv.format \notin {"github", "json", "env"}
             THEN DvEnd(1, "error: invalid output format")
           ELSE IF dv.packageJson = "missing"
             THEN DvEnd(1, "error: package.json not found")
           ELSE IF dv.packageJson = "null"
             THEN DvEnd(1, "error: no version found in package.json")
           ELSE [dv EXCEPT !.pc = "resolve", !.PACKAGE_VERSION = dv.packageJson]
  /\ UNCHANGED nonDvVars

\* TERRAFORM_VERSION="" and the if / elif chain, then the format validation
DvResolve ==
  /\ dv.pc = "resolve"
  /\ LET cleared == [dv EXCEPT !.TERRAFORM_VERSION = ""]
         chosen ==
           IF cleared.arg # ""
             THEN [cleared EXCEPT !.TERRAFORM_VERSION = cleared.arg, !.source = "argument"]
           ELSE IF cleared.TERRAFORM_VERSION # ""
             THEN [cleared EXCEPT !.source = "environment"]
           ELSE IF cleared.refType = "tag" /\ cleared.refName # ""
             THEN [cleared EXCEPT !.TERRAFORM_VERSION = StripV(cleared.refName),
                                  !.source = "git tag"]
           ELSE [cleared EXCEPT !.TERRAFORM_VERSION = cleared.PACKAGE_VERSION,
                                !.source = "package.json"]
     IN dv' = IF DvVersionFormatOk(chosen.TERRAFORM_VERSION)
                THEN [chosen EXCEPT !.pc = "output"]
                ELSE [chosen EXCEPT !.pc = "done", !.exit = [exited |-> TRUE, code |-> 1],
                                    !.sink = "error: invalid terraform version format"]
  /\ UNCHANGED nonDvVars

\* case "$OUTPUT_FORMAT": the two versions in the requested format
DvOutput ==
  /\ dv.pc = "output"
  /\ dv' = [dv EXCEPT !.pc = "done", !.exit = [exited |-> TRUE, code |-> 0],
                      !.sink = IF dv.format = "github" /\ dv.githubOutput
                                 THEN "GITHUB_OUTPUT" ELSE "stdout",
                      !.out = CASE dv.format = "github" ->
                                     <<"package_version=" \o dv.PACKAGE_VERSION,
                                       "terraform_version=" \o dv.TERRAFORM_VERSION>>
                                [] dv.format = "env" ->
                                     <<"PACKAGE_VERSION=" \o dv.PACKAGE_VERSION,
                                       "TERRAFORM_VERSION=" \o dv.TERRAFORM_VERSION>>
                                [] dv.format = "json" ->
                                     <<"package_version: " \o dv.PACKAGE_VERSION,
                                       "terraform_version: " \o dv.TERRAFORM_VERSION>>]
  /\ UNCHANGED nonDvVars

DvSpecInit == CliIdle /\ DlIdle /\ PostIdle /\ SyncIdle /\ DvInit /\ RunIdle

DvNext ==
  \/ DvValidate
  \/ DvResolve
  \/ DvOutput

SpecDetermineVersions == DvSpecInit /\ [][DvNext]_vars

----------------------------------------------------------------------------
(* update-optional-deps.js *)

\* no CLI run and no other script beside a run of a packaging or release tool
OthersIdle == CliIdle /\ DlIdle /\ PostIdle /\ SyncIdle /\ DvIdle

\* Object.values(PLATFORM_MAPPING).map(p => p.npm) of validate-platform-packages.js
ExpectedPackages ==
  {"@aluxian/terraform-darwin-x64", "@aluxian/terraform-darwin-arm64",
   "@aluxian/terraform-linux-x64", "@aluxian/terraform-linux-arm64",
   "@aluxian/terraform-linux-arm", "@aluxian/terraform-win32-x64",
   "@aluxian/terraform-win32-arm64", "@aluxian/terraform-freebsd-x64",
   "@aluxian/terraform-openbsd-x64", "@aluxian/terraform-solaris-x64"}

\* the prefix each copy of the script updates: scripts/update-optional-deps.js
\* and the longer copy with backups and change lists
UpdatePrefix(impl) ==
  IF impl = "scripts" THEN "@aluxian/terraform-" ELSE "@jahed/terraform-"

\* updateOptionalDependencies(packageJson, version): the new optionalDependencies
updateOptionalDependencies(impl, deps, version) ==
  LET updated == [p \in DOMAIN deps |->
                    IF StartsWith(p, UpdatePrefix(impl)) THEN version ELSE deps[p]]
  IN [p \in DOMAIN deps \cup ExpectedPackages |->
        IF p \in DOMAIN updated THEN updated[p] ELSE version]

UpdInit ==
  /\ OthersIdle
  /\ \E in \in [impl : {"scripts", "long"}, version : {"1.5.7", "1.6.0", "latest"},
                dryRun : BOOLEAN,
                deps : UNION {[ps -> {"1.5.7", "1.6.0"}] :
                                ps \in SUBSET {"@aluxian/terraform-linux-x64",
                                               "@aluxian/terraform-legacy",
                                               "@jahed/terraform-linux-x64",
                                               "typescript"}}] :
       run = [pc |-> "start", impl |-> in.impl, version |-> in.version,
              dryRun |-> in.dryRun, before |-> in.deps, deps |-> in.deps,
              disk |-> in.deps, exit |-> [exited |-> FALSE, code |-> 0]]

\* main(): validateVersion, load package.json, updateOptionalDependencies
UpdUpdate ==
  /\ run.pc = "start"
  /\ run' = IF ~validateVersion(run.version)
              THEN [run EXCEPT !.pc = "done", !.exit = [exited |-> TRUE, code |-> 1]]
              ELSE [run EXCEPT !.pc = "updated",
                        !.deps = updateOptionalDependencies(run.impl, run.deps, run.version)]
  /\ UNCHANGED nonRunVars

\* main(): --dry-run, "no changes needed" (long copy), write package.json
UpdWrite ==
  /\ run.pc = "updated"
  /\ LET changed == {p \in DOMAIN run.deps :
                       p \notin DOMAIN run.before \/ StartsWith(p, UpdatePrefix(run.impl))}
     IN run' = IF run.dryRun \/ (run.impl = "long" /\ changed = {})
                 THEN [run EXCEPT !.pc = "done", !.exit = [exited |-> TRUE, code |-> 0]]
                 ELSE [run EXCEPT !.pc = "done", !.disk = run.deps,
                                  !.exit = [exited |-> TRUE, code |-> 0]]
  /\ UNCHANGED nonRunVars

UpdNext == UpdUpdate \/ UpdWrite

SpecUpdateDeps == UpdInit /\ [][UpdNext]_vars

----------------------------------------------------------------------------
(* scripts/release/verify-package-integrity.sh *)

\* EXPECTED_PACKAGES: "@jahed/terraform-$platform" for the default
\* EXPECTED_PLATFORMS, or for EXPECTED_PLATFORMS=darwin-arm64,linux-x64
EXPECTED_PACKAGES(platforms) ==
  IF platforms = "default"
    THEN {"@jahed/terraform-darwin-arm64", "@jahed/terraform-darwin-x64",
          "@jahed/terraform-linux-x64", "@jahed/terraform-linux-arm64",
          "@jahed/terraform-linux-arm", "@jahed/terraform-win32-x64",
          "@jahed/terraform-win32-arm64", "@jahed/terraform-freebsd-x64",
          "@jahed/terraform-openbsd-x64", "@jahed/terraform-solaris-x64"}
    ELSE {"@jahed/terraform-darwin-arm64", "@jahed/terraform-linux-x64"}

\* the errors the script counts in VALIDATION_ERRORS for an extracted package t
IntegrityErrors(t) ==
  LET REQUIRED_FIELDS == {"name", "version", "description", "license", "files"}
      expected == EXPECTED_PACKAGES(t.platforms)
      hasDeps == t.jsonValid /\ t.deps # Null
  IN (IF t.jsonValid THEN {} ELSE {<<"not valid JSON">>})
     \cup {<<"missing required field", f>> : f \in
             {g \in REQUIRED_FIELDS : ~t.jsonValid \/ g \in t.missingFields}}
     \cup (IF hasDeps THEN {} ELSE {<<"no optionalDependencies">>})
     \cup (IF hasDeps
             THEN {<<"missing expected package", p>> : p \in expected \ DOMAIN t.deps.map}
                  \cup {<<"version mismatch", p>> : p \in
                          {q \in expected \cap DOMAIN t.deps.map :
                             t.version # "" /\ t.deps.map[q] # t.version}}
                  \cup {<<"unexpected platform package", p>> : p \in
                          {q \in DOMAIN t.deps.map :
                             /\ t.strict /\ StartsWith(q, "@jahed/terraform-")
                             /\ q \notin expected}}
             ELSE {})
     \cup (IF t.jsonValid /\ "files" \notin t.missingFields /\ ~t.filesExist
             THEN {<<"no files found for pattern">>} ELSE {})
     \cup (IF t.sensitive THEN {<<"sensitive files found">>} ELSE {})

VerInit ==
  /\ OthersIdle
  /\ \E in \in [tarball : {"missing", "corrupt", "no package.json", "ok"},
                jsonValid : BOOLEAN, missingFields : {{}, {"license"}, {"files"}},
                deps : {Null} \cup
                       {[map |-> m] : m \in UNION {[ps -> {"1.13.1", "1.5.7"}] :
                          ps \in SUBSET {"@jahed/terraform-darwin-arm64",
                                         "@jahed/terraform-linux-x64",
                                         "@jahed/terraform-netbsd-x64"}}},
                version : {"", "1.13.1"}, platforms : {"default", "two"},
                filesExist : BOOLEAN, sensitive : BOOLEAN, strict : BOOLEAN] :
       \* what is inside the tarball matters only when it can be extracted
       /\ in.tarball # "ok" =>
            (in.jsonValid /\ in.missingFields = {} /\ in.deps = Null
             /\ in.filesExist /\ ~in.sensitive)
       /\ run = [pc |-> "start", t |-> in, errors |-> {}, out |-> "none",
                 exit |-> [exited |-> FALSE, code |-> 0]]

\* tarball exists, tar -tzf, tar -xzf, package/ and package/package.json
VerExtract ==
  /\ run.pc = "start"
  /\ run' = IF run.t.tarball = "ok" THEN [run EXCEPT !.pc = "extracted"]
            ELSE [run EXCEPT !.pc = "done", !.out = run.t.tarball,
                             !.exit = [exited |-> TRUE, code |-> 1]]
  /\ UNCHANGED nonRunVars

\* the validations that count VALIDATION_ERRORS, the summary and the exit code
VerValidate ==
  /\ run.pc = "extracted"
  /\ LET errors == IntegrityErrors(run.t)
     IN run' = [run EXCEPT !.pc = "done", !.errors = errors,
                           !.out = IF Cardinality(errors) = 0 THEN "PASSED" ELSE "FAILED",
                           !.exit = [exited |-> TRUE,
                                     code |-> IF Cardinality(errors) = 0 THEN 0 ELSE 1]]
  /\ UNCHANGED nonRunVars

SpecVerifyIntegrity == VerInit /\ [][VerExtract \/ VerValidate]_vars

----------------------------------------------------------------------------
(* scripts/platform/generate-package-json.js *)

\* the object the script serialises into <package_dir>/package.json
packageJson(packageName, version, platform, npmArch) ==
  [name |-> packageName, version |-> version, license |-> "MIT",
   os |-> <<platform>>, cpu |-> <<npmArch>>, files |-> <<"bin">>]

GenInit ==
  /\ OthersIdle
  /\ \E in \in [argc : {4, 5},
                packageName : {"@jahed/terraform-test", "@aluxian/terraform-darwin-arm64",
                               "invalid-name"},
                version : {"1.13.1", "invalid"}, platform : {"darwin", "invalid"},
                npmArch : {"arm64", "invalid"}, dirExists : BOOLEAN] :
       run = [pc |-> "start", args |-> in, file |-> Null, out |-> "none",
              exit |-> [exited |-> FALSE, code |-> 0]]

\* if (args.length < 5) { usage; process.exit(1) }
GenCheckArgs ==
  /\ run.pc = "start"
  /\ run' = IF run.args.argc < 5
              THEN [run EXCEPT !.pc = "done", !.out = "Usage",
                               !.exit = [exited |-> TRUE, code |-> 1]]
              ELSE [run EXCEPT !.pc = "write"]
  /\ UNCHANGED nonRunVars

\* fs.writeFileSync(path.join(packageDir, "package.json"), ...) throws ENOENT
\* when the directory is missing; the uncaught exception ends node with code 1
GenWrite ==
  /\ run.pc = "write"
  /\ run' = IF run.args.dirExists
              THEN [run EXCEPT !.pc = "done", !.out = "Generated package.json",
                               !.file = packageJson(run.args.packageName, run.args.version,
                                                    run.args.platform, run.args.npmArch),
                               !.exit = [exited |-> TRUE, code |-> 0]]
              ELSE [run EXCEPT !.pc = "done", !.out = "ENOENT",
                               !.exit = [exited |-> TRUE, code |-> 1]]
  /\ UNCHANGED nonRunVars

SpecGeneratePackageJson == GenInit /\ [][GenCheckArgs \/ GenWrite]_vars

----------------------------------------------------------------------------
(* scripts/platform/publish-package.sh *)

\* the checks without the comparison of package.json with the arguments
PublishPrecheck_NoMetadata(in) ==
  IF in.argc < 3 THEN Num(1)
  ELSE IF in.token = "none" THEN Num(1)
  ELSE IF in.dir \in {"missing", "no package.json"} THEN Num(1)
  ELSE IF in.packageName # "@jahed/terraform-darwin-arm64" THEN Num(1)
  ELSE IF in.version # "1.13.1" THEN Num(1)
  ELSE IF in.dir = "invalid json" THEN Num(2)
  ELSE Null

\* the exit code that ends the checks of the arguments, the token, the package
\* directory and the package metadata, or Null when they all pass; a package.json
\* that jq cannot parse ends the script under set -e with jq's exit code
PublishPrecheck(in) ==
  IF in.argc < 3 THEN Num(1)
  ELSE IF in.token = "none" THEN Num(1)
  ELSE IF in.dir \in {"missing", "no package.json"} THEN Num(1)
  ELSE IF in.packageName # "@jahed/terraform-darwin-arm64" THEN Num(1)   \* ^@[a-z0-9-]+/[a-z0-9-]+$
  ELSE IF in.version # "1.13.1" THEN Num(1)   \* \w is a literal in a bash bracket expression
  ELSE IF in.dir = "invalid json" THEN Num(2)
  ELSE IF in.actualName # in.packageName THEN Num(1)
  ELSE IF in.actualVersion # in.version THEN Num(1)
  ELSE Null

PubEnd(code, out) ==
  [run EXCEPT !.pc = "done", !.out = out, !.exit = [exited |-> TRUE, code |-> code]]

\* the registry is either reachable for the whole run or not at all
PubInit ==
  /\ OthersIdle
  /\ \E in \in [argc : {2, 3}, token : {"none", "arg", "env"},
                dir : {"missing", "no package.json", "invalid json", "ok"},
                packageName : {"@jahed/terraform-darwin-arm64", "invalid-name"},
                version : {"1.13.1", "1.13.1-beta.1", "invalid"},
                actualName : {"@jahed/terraform-darwin-arm64", "@jahed/terraform-linux-x64"},
                actualVersion : {"1.13.1", "1.13.0"},
                DRY_RUN : {"true", "false"}, FORCE_PUBLISH : {"true", "false"},
                onRegistry : BOOLEAN, reachable : BOOLEAN, authenticated : BOOLEAN,
                packOk : BOOLEAN, publishOk : BOOLEAN] :
       run = [pc |-> "start", in |-> in, calls |-> << >>, out |-> "none",
              exit |-> [exited |-> FALSE, code |-> 0]]

PubValidate ==
  /\ run.pc = "start"
  /\ LET code == PublishPrecheck(run.in)
     IN run' = IF code = Null THEN [run EXCEPT !.pc = "exists"]
               ELSE PubEnd(code.n, "error")
  /\ UNCHANGED nonRunVars

\* if npm view "$PACKAGE_NAME@$VERSION" version; then ... exit 0 unless FORCE_PUBLISH
PubCheckExists ==
  /\ run.pc = "exists"
  /\ LET found == run.in.reachable /\ run.in.onRegistry
         called == [run EXCEPT !.calls = Append(@, "npm view")]
     IN run' = IF found /\ run.in.FORCE_PUBLISH # "true"
                 THEN [called EXCEPT !.pc = "done", !.out = "Skipping publish",
                                     !.exit = [exited |-> TRUE, code |-> 0]]
                 ELSE [called EXCEPT !.pc = "auth"]
  /\ UNCHANGED nonRunVars

\* npm whoami, then npm pack --dry-run
PubAuthenticate ==
  /\ run.pc = "auth"
  /\ run' = IF ~(run.in.reachable /\ run.in.authenticated)
              THEN [PubEnd(1, "npm authentication failed") EXCEPT
                      !.calls = Append(@, "npm whoami")]
            ELSE IF ~run.in.packOk
              THEN [PubEnd(1, "Package validation failed") EXCEPT
                      !.calls = @ \o <<"npm whoami", "npm pack --dry-run">>]
            ELSE [run EXCEPT !.pc = "publish",
                             !.calls = @ \o <<"npm whoami", "npm pack --dry-run">>]
  /\ UNCHANGED nonRunVars

\* the dry run, or npm publish --access ... --provenance
PubPublish ==
  /\ run.pc = "publish"
  /\ run' = IF run.in.DRY_RUN = "true" THEN PubEnd(0, "Dry run completed")
            ELSE IF run.in.publishOk /\ ~run.in.onRegistry
              THEN [PubEnd(0, "Successfully published") EXCEPT
                      !.calls = @ \o <<"npm publish", "npm view">>]
            ELSE [PubEnd(1, "npm publish failed") EXCEPT !.calls = Append(@, "npm publish")]
  /\ UNCHANGED nonRunVars

SpecPublish == PubInit /\ [][PubValidate \/ PubCheckExists \/ PubAuthenticate \/ PubPublish]_vars

----------------------------------------------------------------------------
(* scripts/platform/validate-package.sh *)

\* the count without the check of the executable permission
ValidationErrors_NoExecutableCheck(p) ==
  (IF p.packageJson = "missing" THEN 2
   ELSE IF p.packageJson = "invalid" THEN 1
   ELSE Cardinality(p.missingFields)
        + (IF p.nameMatches THEN 0 ELSE 1)
        + (IF "os" \notin p.missingFields /\ p.osHasPlatform THEN 0 ELSE 1)
        + (IF "files" \notin p.missingFields /\ p.filesHasBin THEN 0 ELSE 1))
  + (IF p.readme THEN 0 ELSE 1)
  + (IF p.binary = "missing" THEN 2
     ELSE IF p.platform = "win32" THEN 0
     ELSE (IF p.binary = "symlink" THEN 1 ELSE 0))

\* VALIDATION_ERRORS at the summary, for a package directory p that exists: the
\* required files, package.json, README.md and the binary, in the script's order;
\* a missing package.json or binary is counted by two checks
ValidationErrors(p) ==
  (IF p.packageJson = "missing" THEN 2
   ELSE IF p.packageJson = "invalid" THEN 1
   ELSE Cardinality(p.missingFields)
        + (IF p.nameMatches THEN 0 ELSE 1)
        + (IF "os" \notin p.missingFields /\ p.osHasPlatform THEN 0 ELSE 1)
        + (IF "files" \notin p.missingFields /\ p.filesHasBin THEN 0 ELSE 1))
  + (IF p.readme THEN 0 ELSE 1)
  + (IF p.binary = "missing" THEN 2
     ELSE IF p.platform = "win32" THEN 0
     ELSE (IF p.binary = "regular" THEN 1 ELSE 0)
          + (IF p.binary = "symlink" THEN 1 ELSE 0))

\* binary is the state of bin/$BINARY_NAME: missing, a regular file without the
\* executable bit, an executable file, or a symlink to an executable file
ValInit ==
  /\ OthersIdle
  /\ \E in \in [args : {"too few", "invalid name", "invalid platform",
                        "invalid binary name", "ok"},
                dirExists : BOOLEAN, platform : {"linux", "win32"},
                packageJson : {"missing", "invalid", "ok"},
                missingFields : {{}, {"license"}, {"os", "cpu"}, {"files"}},
                nameMatches : BOOLEAN, osHasPlatform : BOOLEAN, filesHasBin : BOOLEAN,
                readme : BOOLEAN,
                binary : {"missing", "regular", "executable", "symlink"},
                unexpectedFiles : BOOLEAN] :
       \* the content of package.json matters only when it parses
       /\ in.packageJson # "ok" =>
            (in.missingFields = {} /\ in.nameMatches /\ in.osHasPlatform /\ in.filesHasBin)
       /\ run = [pc |-> "start", p |-> in, errors |-> 0, warnings |-> {}, out |-> "none",
                 exit |-> [exited |-> FALSE, code |-> 0]]

\* argument count, package name, platform, binary name, package directory
ValCheckArgs ==
  /\ run.pc = "start"
  /\ run' = IF run.p.args = "ok" /\ run.p.dirExists
              THEN [run EXCEPT !.pc = "validate"]
              ELSE [run EXCEPT !.pc = "done",
                               !.out = IF run.p.args = "ok"
                                         THEN "Package directory does not exist"
                                         ELSE run.p.args,
                               !.exit = [exited |-> TRUE, code |-> 1]]
  /\ UNCHANGED nonRunVars

\* the validations, the warning about unexpected files, the summary and exit
ValValidate ==
  /\ run.pc = "validate"
  /\ LET errors == ValidationErrors(run.p)
     IN run' = [run EXCEPT !.pc = "done", !.errors = errors,
                  !.warnings = IF run.p.unexpectedFiles
                                 THEN {"Unexpected files found"} ELSE {},
                  !.out = IF errors = 0 THEN "PASSED" ELSE "FAILED",
                  !.exit = [exited |-> TRUE, code |-> IF errors = 0 THEN 0 ELSE 1]]
  /\ UNCHANGED nonRunVars

SpecValidatePackage == ValInit /\ [][ValCheckArgs \/ ValValidate]_vars

----------------------------------------------------------------------------
(* scripts/check-terraform-updates.js: parseVersion, compareVersions, filterReleases *)

\* version.match(/^(\d+)\.(\d+)\.(\d+)(?:-(.+))?$/), the numbers through parseInt;
\* Null when the string does not match
parseVersion(version) ==
  LET Char(i) == IF i >= 1 /\ i <= Len(version) THEN SubSeq(version, i, i) ELSE ""
      IsDigit(i) == Char(i) \in {"0", "1", "2", "3", "4", "5", "6", "7", "8", "9"}
      DigitOf(i) == (CHOOSE d \in 1..10 : SubSeq("0123456789", d, d) = Char(i)) - 1
      \* the last index of the run of digits that starts at i (i - 1 when empty)
      RECURSIVE DigitsEnd(_)
      DigitsEnd(i) == IF IsDigit(i) THEN DigitsEnd(i + 1) ELSE i - 1
      RECURSIVE ParseInt(_, _)
      ParseInt(i, j) == IF j < i THEN 0 ELSE ParseInt(i, j - 1) * 10 + DigitOf(j)
      e1 == DigitsEnd(1)
      e2 == DigitsEnd(e1 + 2)
      e3 == DigitsEnd(e2 + 2)
      numbers == /\ e1 >= 1 /\ Char(e1 + 1) = "."
                 /\ e2 >= e1 + 2 /\ Char(e2 + 1) = "."
                 /\ e3 >= e2 + 2
  IN IF numbers /\ (e3 = Len(version) \/ (Char(e3 + 1) = "-" /\ Len(version) >= e3 + 2))
       THEN [tag |-> "version",
             major |-> ParseInt(1, e1), minor |-> ParseInt(e1 + 2, e2),
             patch |-> ParseInt(e2 + 2, e3),
             prerelease |-> IF e3 = Len(version) THEN Null
                            ELSE Str(SubSeq(version, e3 + 2, Len(version))),
             original |-> version]
       ELSE Null

\* a comparator that orders nothing
compareVersions_Unordered(a, b) == 0

\* the sort comparator: negative when a sorts before b (a is the newer version)
compareVersions(a, b) ==
  LET vA == parseVersion(a)
      vB == parseVersion(b)
      Rank(s, i) == CHOOSE r \in 1..36 :
                      SubSeq("0123456789abcdefghijklmnopqrstuvwxyz", r, r) = SubSeq(s, i, i)
      \* String.prototype.localeCompare on lower-case letters and digits
      RECURSIVE localeCompare(_, _, _)
      localeCompare(s, t, i) ==
        IF i > Len(s) /\ i > Len(t) THEN 0
        ELSE IF i > Len(s) THEN -1
        ELSE IF i > Len(t) THEN 1
        ELSE IF Rank(s, i) < Rank(t, i) THEN -1
        ELSE IF Rank(s, i) > Rank(t, i) THEN 1
        ELSE localeCompare(s, t, i + 1)
  IN IF vA = Null \/ vB = Null THEN 0
     ELSE IF vA.major # vB.major THEN vB.major - vA.major
     ELSE IF vA.minor # vB.minor THEN vB.minor - vA.minor
     ELSE IF vA.patch # vB.patch THEN vB.patch - vA.patch
     ELSE IF vA.prerelease # Null /\ vB.prerelease = Null THEN 1
     ELSE IF vA.prerelease = Null /\ vB.prerelease # Null THEN -1
     ELSE IF vA.prerelease # Null /\ vB.prerelease # Null
       THEN localeCompare(vB.prerelease.s, vA.prerelease.s, 1)
     ELSE 0

\* releases.filter(...) followed by the stable Array.prototype.sort
filterReleases(releases, options) ==
  LET Includes(s, c) == \E i \in 1..Len(s) : SubSeq(s, i, i) = c
      Keep(release) ==
        IF ~options.includePrerelease /\ Includes(release.version, "-") THEN FALSE
        ELSE parseVersion(release.version) # Null
      RECURSIVE Filter(_)
      Filter(i) == IF i > Len(releases) THEN << >>
                   ELSE (IF Keep(releases[i]) THEN <<releases[i]>> ELSE << >>) \o Filter(i + 1)
      \* x goes behind every element that does not sort after it
      RECURSIVE Insert(_, _)
      Insert(sorted, x) ==
        IF sorted = << >> THEN <<x>>
        ELSE IF compareVersions(sorted[Len(sorted)].version, x.version) <= 0
          THEN Append(sorted, x)
        ELSE Append(Insert(SubSeq(sorted, 1, Len(sorted) - 1), x), sorted[Len(sorted)])
      RECURSIVE Sort(_, _)
      Sort(s, n) == IF n = 0 THEN << >> ELSE Insert(Sort(s, n - 1), s[n])
      filtered == Filter(1)
  IN Sort(filtered, Len(filtered))

\* the releases of a fetch, each with its version string
RelInit ==
  /\ OthersIdle
  /\ \E n \in 0..3 :
       \E versions \in [1..n -> {"1.6.0", "1.10.0", "1.6.0-rc1", "1.6.0-beta1",
                                 "2.0.0-alpha", "v1.6.0", "1.6", "1.6.0-"}] :
         \E includePrerelease \in BOOLEAN :
           run = [pc |-> "start",
                  releases |-> [i \in 1..n |-> [version |-> versions[i]]],
                  options |-> [includePrerelease |-> includePrerelease],
                  filtered |-> << >>, latest |-> Null, err |-> NoError]

FilterReleases ==
  /\ run.pc = "start"
  /\ run' = [run EXCEPT !.pc = "filtered",
                        !.filtered = filterReleases(run.releases, run.options)]
  /\ UNCHANGED nonRunVars

\* getLatestTerraformVersion: filtered[0], or "No stable releases found"
GetLatest ==
  /\ run.pc = "filtered"
  /\ run' = IF Len(run.filtered) = 0
              THEN [run EXCEPT !.pc = "done",
                               !.err = [kind |-> "Error", message |-> "No stable releases found"]]
              ELSE [run EXCEPT !.pc = "done", !.latest = Str(run.filtered[1].version)]
  /\ UNCHANGED nonRunVars

SpecFilterReleases == RelInit /\ [][FilterReleases \/ GetLatest]_vars

----------------------------------------------------------------------------
(* Properties of the CLI entry point and the resolvers *)

\* resolveTerraformBinary() has settled (resolved or rejected)
Settled == pc \in {"resolved", "running", "rejected", "exited"}

\* require.resolve(platformInfo.pkg) was called and threw
ResolveFailed == Count("require.resolve") >= 1 /\ packagePath = NoPath

\* the position of the first occurrence of an effect in the log
FirstIndex(ev) == CHOOSE i \in DOMAIN log : log[i] = ev /\ \A j \in 1 .. (i - 1) : log[j] # ev

\* C1: whenever the spawned terraform child exits with a code N in 0..255,
\* the CLI process itself exits with exactly N.
C1_ExitCodePassthrough ==
  (child.tag = "number" /\ child.n \in 0 .. 255) =>
    (pc = "exited" /\ exit.exited /\ exit.code = child.n)

C1_Witness ==
  /\ variant = "inline" /\ pc = "exited"
  /\ child = Num(127) /\ exit.code = 127

\* C2: when resolveTerraformBinary() throws or rejects, the CLI prints the error,
\* exits with a nonzero code and never spawns a child process in that run.
C2_ResolutionFailureExits ==
  (err.kind # "none") =>
    /\ pc \in {"rejected", "exited"}
    /\ Count("spawn") = 0
    /\ child.tag = "none"
    /\ pc = "exited" => (exit.exited /\ exit.code # 0 /\ Count("console.error") = 1)

C2_Witness ==
  /\ pc = "exited" /\ err.kind = "BinaryNotAccessible"
  /\ exit.code = 1 /\ Count("console.error") = 1 /\ Count("spawn") = 0

\* C3: in the permissive resolver the download installer is attempted exactly once
\* when the platform package cannot be resolved, never more than once in a call,
\* and not at all when the package resolves and its binary is accessible.
C3_DownloadAttemptedOnce ==
  (variant = "permissive") =>
    /\ Count("install") <= 1
    /\ (ResolveFailed /\ Settled) => Count("install") = 1
    /\ (packagePath # NoPath /\ Count("access") >= 1
        /\ FileModeAt(PathResolve(Dirname(packagePath), platformInfo.subpath),
                      platformInfo.pkg, pkgLayout, host.platform, binMode) = "exec")
         => (Count("install") = 0 /\ pc \notin {"fallback", "warned", "installing"})

C3_Witness ==
  /\ variant = "permissive" /\ ResolveFailed /\ pc = "exited"
  /\ Count("install") = 1 /\ err.kind = "DownloadFailed"

\* C4: on a host whose key has no descriptor the mapper reports not-supported and
\* the strict resolvers fail with the unsupported-platform error before any module
\* resolution, file access check or download.
C4_UnsupportedFailsFirst ==
  (variant # "permissive" /\ Falsy(HostDescriptor) /\ pc # "start") =>
    /\ ~getPlatformPackage(variant, host.platform, host.arch).ok
    /\ pc \in {"rejected", "exited"}
    /\ err.kind = "UnsupportedPlatform"
    /\ err.platform = host.platform /\ err.arch = host.arch
    /\ Count("require.resolve") = 0
    /\ Count("access") = 0
    /\ Count("install") = 0
    /\ Count("spawn") = 0

C4_Witness ==
  /\ variant = "inline" /\ host = [platform |-> "android", arch |-> "arm64"]
  /\ pc = "exited" /\ err.kind = "UnsupportedPlatform" /\ Count("require.resolve") = 0

\* C5: on a not-supported platform the permissive resolver, like the strict one,
\* ends in the unsupported-platform failure without warning and without attempting
\* the download fallback.
C5_PermissiveUnsupportedFails ==
  (variant = "permissive" /\ Falsy(HostDescriptor)) =>
    /\ Count("console.warn") = 0
    /\ Count("install") = 0
    /\ pc \notin {"warned", "installing", "resolved", "running"}
    /\ pc = "exited" => err.kind = "UnsupportedPlatform"

\* C6: on darwin arm64 with the platform package installed and its binary present
\* and executable, resolveTerraformBinary() resolves to package root + bin/terraform
\* and the download installer is not invoked.
C6_FastPathResolves ==
  (/\ host = [platform |-> "darwin", arch |-> "arm64"]
   /\ pkgLayout # "absent" /\ binMode = "exec"
   /\ Settled) =>
    /\ err = NoError
    /\ terraformPath = <<"node_modules", HostDescriptor.pkg, "bin/terraform">>
    /\ Count("install") = 0

\* C7: a fast-path binary path is returned only if the file exists and is
\* executable; otherwise the strict resolvers fail with the binary-not-accessible
\* error carrying reinstall guidance and the permissive resolver falls back to the
\* download.
C7_BinaryMustBeExecutable ==
  LET candidate == PathResolve(Dirname(packagePath), platformInfo.subpath)
      mode == FileModeAt(candidate, platformInfo.pkg, pkgLayout, host.platform, binMode)
  IN (Count("access") >= 1) =>
       /\ (terraformPath # NoPath /\ Count("install") = 0) =>
            (terraformPath = candidate /\ mode = "exec")
       /\ (mode # "exec" /\ variant # "permissive") =>
            /\ pc \in {"rejected", "exited"}
            /\ err.kind = "BinaryNotAccessible"
            /\ err.pkg = platformInfo.pkg /\ err.path = candidate
            /\ "npm install the platform package" \in err.guidance
            /\ Count("spawn") = 0
       /\ (mode # "exec" /\ variant = "permissive") =>
            /\ pc \in {"fallback", "warned", "installing", "resolved", "running",
                       "rejected", "exited"}
            /\ err.kind # "BinaryNotAccessible"
            /\ Settled => Count("install") = 1

C7_Witness ==
  /\ variant = "strict" /\ pkgLayout = "fixture" /\ binMode = "noexec"
  /\ pc = "exited" /\ err.kind = "BinaryNotAccessible"

\* C8: in the strict resolvers a failed module resolution is terminal: the error
\* names the package and gives reinstall / manual-install guidance, and no access
\* check, retry or download follows.
C8_StrictPackageNotFound ==
  (variant # "permissive" /\ ResolveFailed) =>
    /\ pc \in {"rejected", "exited"}
    /\ err.kind = "PackageNotFound"
    /\ err.pkg = HostDescriptor.pkg
    /\ {"reinstall without --no-optional", "npm install the platform package"}
         \subseteq err.guidance
    /\ Count("require.resolve") = 1
    /\ Count("access") = 0
    /\ Count("console.warn") = 0
    /\ Count("install") = 0
    /\ Count("spawn") = 0

C8_Witness ==
  /\ variant = "strict" /\ pkgLayout = "absent" /\ pc = "exited"
  /\ err.kind = "PackageNotFound" /\ Count("require.resolve") = 1

\* C9: on host (linux, x64), when module resolution of the platform package fails,
\* the permissive resolver warns first and only then invokes the download installer,
\* with vendor platform "linux", vendor arch "amd64" and the configured version.
C9_WarnThenInstall ==
  (/\ variant = "permissive"
   /\ host = [platform |-> "linux", arch |-> "x64"]
   /\ ResolveFailed) =>
    /\ Count("install") >= 1 =>
         /\ Count("console.warn") = 1
         /\ FirstIndex("console.warn") < FirstIndex("install")
         /\ installArgs = [ok |-> TRUE, vendorPlatform |-> "linux", vendorArch |-> "amd64",
                           version |-> ConfiguredVersion]
    /\ Settled => Count("install") = 1

C9_Witness ==
  /\ variant = "permissive" /\ host = [platform |-> "linux", arch |-> "x64"]
  /\ ResolveFailed /\ pc = "running" /\ Count("install") = 1
  /\ installArgs.ok /\ installArgs.vendorArch = "amd64"

----------------------------------------------------------------------------
(* Properties of the download step *)

\* the vendor's manifest has a line for the downloaded archive and no such line
\* carries the archive's digest
ChecksumMismatch ==
  LET lines == GrepZipFile(ManifestLines(dl.manifest, dl.version, dl.arch),
                           ZIP_FILE(dl.version, dl.arch))
  IN /\ ZIP_FILE(dl.version, dl.arch) \in dl.files
     /\ lines # {}
     /\ \A l \in lines : l.sum # ArchiveDigest

\* C10: when the downloaded archive's SHA-256 checksum does not match the manifest
\* entry, the download step exits nonzero without extracting the archive and
\* without reporting a binary location. Stated for the runs that leave
\* SKIP_CHECKSUM_VERIFICATION unset, so that a violation is not the opt-out.
C10_ChecksumGate ==
  (ChecksumMismatch /\ dl.skip # "true") =>
    /\ ~dl.extracted
    /\ \A i \in DOMAIN dl.out : dl.out[i] \notin {"success", "binary location"}
    /\ dl.pc = "done" => dl.exit.code # 0

\* C11: every run of the download step that extracts, executes or reports the
\* downloaded binary as obtained has first verified the archive's checksum against
\* the vendor's manifest; a failure to verify is never downgraded to a warning or
\* skipped. Stated for the runs that leave SKIP_CHECKSUM_VERIFICATION unset.
C11_VerifiedBeforeUse ==
  (/\ dl.skip # "true"
   /\ \/ dl.extracted
      \/ dl.executed
      \/ \E i \in DOMAIN dl.out : dl.out[i] \in {"success", "binary location"}) =>
    /\ dl.verification = "passed"
    /\ \A i \in DOMAIN dl.out :
         dl.out[i] \notin {"warning: checksums download failed", "warning: no checksum tool",
                           "skipping checksum verification"}

\* the manifest was downloaded and none of its lines names the archive
NoManifestLine ==
  /\ dl.pc # "idle"
  /\ CHECKSUMS_FILE(dl.version) \in dl.files
  /\ GrepZipFile(ManifestLines(dl.manifest, dl.version, dl.arch),
                 ZIP_FILE(dl.version, dl.arch)) = {}

\* C12: when the checksum manifest has no line for the downloaded archive, the
\* download fails, no binary is extracted or returned, and the downloaded archive
\* and manifest are removed.
C12_NoManifestLineCleansUp ==
  NoManifestLine =>
    /\ ~dl.extracted
    /\ dl.pc = "done" =>
         /\ dl.exit.code # 0
         /\ \A i \in DOMAIN dl.out : dl.out[i] \notin {"success", "binary location"}
         /\ dl.files \cap {ZIP_FILE(dl.version, dl.arch), CHECKSUMS_FILE(dl.version)} = {}

----------------------------------------------------------------------------
(* Properties of the platform mapper *)

\* the tables of the library mapper and of the published CLI
MappingTables == {PLATFORM_MAPPING, CLI_PLATFORM_MAPPING}

\* C13: for every (platform, arch) pair, keys of the table or not, the platform
\* mapper returns either a descriptor or the not-supported error; it never returns
\* or resolves to an undefined or absent result, and no run goes on to use one.
\* The runs start from every pair of Hosts under every build of Variants.
C13_MapperTotal ==
  /\ LET r == getPlatformPackage(variant, host.platform, host.arch)
     IN \/ r.ok /\ r.value.tag = "info"
        \/ /\ ~r.ok /\ r.error.kind = "UnsupportedPlatform"
           /\ r.error.platform = host.platform /\ r.error.arch = host.arch
  /\ pc # "start" =>
       \/ platformInfo.tag = "info"
       \/ /\ ~getPlatformPackage(variant, host.platform, host.arch).ok
          /\ Count("require.resolve") = 0
          /\ Count("access") = 0

C13_Witness ==
  /\ variant = "strict" /\ host = [platform |-> "linux", arch |-> "ia32"]
  /\ \A i \in DOMAIN PLATFORM_MAPPING : PLATFORM_MAPPING[i][1] # "linux ia32"
  /\ pc = "rejected" /\ platformInfo = Undefined /\ err.kind = "UnsupportedPlatform"

\* C14: every mapping entry whose operating system is Windows (win32) has a
\* binary subpath ending in ".exe", and no entry of another operating system has.
C14_ExeSuffix ==
  /\ \A table \in MappingTables : \A i \in DOMAIN table :
       table[i][2].tag = "info" =>
         (StartsWith(table[i][1], "win32 ") <=> EndsWith(table[i][2].subpath, ".exe"))
  /\ platformInfo.tag = "info" =>
       (host.platform = "win32" <=> EndsWith(platformInfo.subpath, ".exe"))

C14_Witness ==
  /\ variant = "inline" /\ host = [platform |-> "win32", arch |-> "x64"]
  /\ pc = "mapped" /\ platformInfo.tag = "info"
  /\ EndsWith(platformInfo.subpath, ".exe")

\* C15: every (platform, arch) pair that process.platform and os.arch() can
\* produce has an explicit entry in the mapping table a run reads, a descriptor or
\* an explicit null; no observable pair is absent from the table.
C15_TableTotal ==
  pc # "start" =>
    \E i \in DOMAIN MappingOf(variant) :
      MappingOf(variant)[i][1] = PlatformKey(host.platform, host.arch)

\* C17: whenever the platform mapper reports not-supported, the error names the
\* unsupported (platform, arch) combination and lists all supported combinations:
\* exactly the table keys that have a non-null descriptor.
C17_ErrorListsSupported ==
  LET table == MappingOf(variant)
      r == getPlatformPackage(variant, host.platform, host.arch)
  IN (pc # "start" /\ ~r.ok) =>
       /\ r.error.platform = host.platform /\ r.error.arch = host.arch
       /\ {r.error.supported[i] : i \in DOMAIN r.error.supported}
            = {table[i][1] : i \in {j \in DOMAIN table : table[j][2] # Null}}
       /\ err.kind = "UnsupportedPlatform" => err = r.error

----------------------------------------------------------------------------
(* Properties of the download URLs *)

\* the URLs the step has requested so far are the archive's, then the manifest's
FetchedInOrder(archiveUrl, manifestUrl) ==
  /\ Len(dl.fetched) <= 2
  /\ Len(dl.fetched) >= 1 => dl.fetched[1] = archiveUrl
  /\ Len(dl.fetched) >= 2 => dl.fetched[2] = manifestUrl

\* C16 as stated: for all version and vendor platform/arch inputs the archive URL
\* is {base_url}/{version}/terraform_{version}_{platform}_{arch}.zip and the
\* checksum-manifest URL is {base_url}/{version}/{version}_SHA256SUMS.
C16_UrlsAsStated ==
  FetchedInOrder(
    dl.base \o "/" \o dl.version \o "/terraform_" \o dl.version \o "_"
            \o dl.arch[1] \o "_" \o dl.arch[2] \o ".zip",
    dl.base \o "/" \o dl.version \o "/" \o dl.version \o "_SHA256SUMS")

\* C16, amended: the archive URL is
\* {base_url}/{version}/terraform_{version}_{platform}_{arch}.zip and the
\* checksum-manifest URL is {base_url}/{version}/terraform_{version}_SHA256SUMS,
\* both determined by the base URL, the version and the vendor platform/arch alone.
C16_Urls ==
  FetchedInOrder(
    dl.base \o "/" \o dl.version \o "/terraform_" \o dl.version \o "_"
            \o dl.arch[1] \o "_" \o dl.arch[2] \o ".zip",
    dl.base \o "/" \o dl.version \o "/terraform_" \o dl.version \o "_SHA256SUMS")

C16_Witness ==
  /\ dl.version = "1.6.0-beta1" /\ dl.arch = <<"windows", "amd64">>
  /\ dl.base = "http://mirror.test/terraform"
  /\ dl.fetched =
       <<"http://mirror.test/terraform/1.6.0-beta1/terraform_1.6.0-beta1_windows_amd64.zip",
         "http://mirror.test/terraform/1.6.0-beta1/terraform_1.6.0-beta1_SHA256SUMS">>

----------------------------------------------------------------------------
(* Properties of the postinstall script *)

\* C18: the postinstall script's main() always ends the process with exit code 0:
\* when resolution through the built library succeeds, when it fails or throws,
\* when the lib directory is missing, and when the host platform is unsupported.
C18_PostinstallExitsZero ==
  /\ post.exit.exited <=> post.pc = "done"
  /\ post.exit.exited => post.exit.code = 0
  /\ post.pc = "finish" =>
       \/ post.resolvedFromBuilt = "true" /\ post.outcome = "resolves"
       \/ post.resolvedFromBuilt = "false" /\ post.developmentValid # "unset"

C18_Witness ==
  /\ post.pc = "done" /\ post.exit = [exited |-> TRUE, code |-> 0]
  /\ post.lib /\ post.resolver /\ post.outcome = "rejects"
  /\ post.host = [platform |-> "android", arch |-> "arm64"]
  /\ post.developmentValid = "false"

----------------------------------------------------------------------------
(* Properties of scripts/sync-versions.js *)

\* C19: run without --dry-run on an out-of-sync package.json, --main-to-platforms
\* updates every platform package version in optionalDependencies to the main
\* package version and --platforms-to-main updates the main package version to the
\* platform package version; after either run the written package.json is
\* synchronized.
C19_SyncModes ==
  LET before == analyzeVersionState(sync.packageJson)
  IN (/\ sync.pc = "done" /\ sync.exit.code = 0 /\ ~sync.dryRun
      /\ before.status = "out-of-sync"
      /\ sync.mode \in {"main-to-platforms", "platforms-to-main"}) =>
       /\ analyzeVersionState(sync.disk).status = "synchronized"
       /\ sync.mode = "main-to-platforms" =>
            /\ sync.disk.version = sync.packageJson.version
            /\ \A p \in TerraformPackages(sync.disk.deps) :
                 sync.disk.deps[p] = sync.packageJson.version
       /\ sync.mode = "platforms-to-main" =>
            /\ sync.disk.version = before.platformVersion.s
            /\ sync.disk.deps = sync.packageJson.deps

----------------------------------------------------------------------------
(* Properties of scripts/release/determine-versions.sh *)

\* C20: determine-versions.sh takes the terraform version from the first available
\* source in this priority order: command-line argument, TERRAFORM_VERSION
\* environment variable, git tag (when GITHUB_REF_TYPE=tag, with a leading 'v'
\* stripped), package.json version; a higher-priority source that is set always
\* overrides every lower one.
C20_VersionPriority ==
  (dv.source # "none") =>
    dv.TERRAFORM_VERSION =
      (IF dv.arg # "" THEN dv.arg
       ELSE IF dv.env # "" THEN dv.env
       ELSE IF dv.refType = "tag" /\ dv.refName # "" /\ StartsWith(dv.refName, "v")
         THEN SubSeq(dv.refName, 2, Len(dv.refName))
       ELSE IF dv.refType = "tag" /\ dv.refName # "" THEN dv.refName
       ELSE dv.packageJson)

----------------------------------------------------------------------------
(* Properties of update-optional-deps.js *)

\* C21: after updateOptionalDependencies(packageJson, version), every platform
\* package in optionalDependencies (every package expected by PLATFORM_MAPPING and
\* every terraform platform package already present) has exactly the given
\* version, whatever versions were present before.
C21_AllPlatformPackagesUpdated ==
  (run.pc = "updated" \/ (run.pc = "done" /\ run.exit.code = 0)) =>
    \A p \in ExpectedPackages
               \cup {q \in DOMAIN run.before : StartsWith(q, "@aluxian/terraform-")} :
      p \in DOMAIN run.deps /\ run.deps[p] = run.version

----------------------------------------------------------------------------
(* Properties of scripts/release/verify-package-integrity.sh *)

\* C22: verify-package-integrity.sh exits 0 (verification PASSED) for every
\* tarball whose package.json is valid JSON with all required fields, whose 'files'
\* entries exist, and whose terraform platform packages listed in
\* optionalDependencies all carry the expected terraform version. Stated for
\* tarballs that have optionalDependencies and no sensitive file, without
\* STRICT_MODE.
C22_ValidTarballPasses ==
  (/\ run.pc = "done" /\ run.t.tarball = "ok"
   /\ run.t.jsonValid /\ run.t.missingFields = {} /\ run.t.filesExist
   /\ run.t.deps # Null /\ ~run.t.sensitive /\ ~run.t.strict
   /\ \A p \in DOMAIN run.t.deps.map :
        StartsWith(p, "@jahed/terraform-") => run.t.deps.map[p] = run.t.version) =>
    /\ run.exit.code = 0
    /\ run.out = "PASSED"

----------------------------------------------------------------------------
(* Properties of scripts/platform/generate-package-json.js *)

\* the arguments Tests 3-7 of test-generate-package-json.sh call invalid
GenArgsInvalid(a) ==
  \/ a.packageName \notin {"@jahed/terraform-test", "@aluxian/terraform-darwin-arm64"}
  \/ a.version # "1.13.1"
  \/ a.platform \notin {"darwin", "linux", "win32", "freebsd", "openbsd", "solaris"}
  \/ a.npmArch \notin {"arm64", "x64", "arm", "ia32"}
  \/ ~a.dirExists

\* C23: generate-package-json.js exits nonzero and writes no package.json
\* whenever the package name is not of the form @scope/name, the version is not a
\* semantic version, the platform or the architecture is not in the supported
\* set, or the package directory does not exist.
C23_InvalidArgumentsRejected ==
  (run.pc = "done" /\ GenArgsInvalid(run.args)) =>
    /\ run.exit.code # 0
    /\ run.file = Null

----------------------------------------------------------------------------
(* Properties of scripts/platform/publish-package.sh *)

PublishInvoked == \E i \in 1..Len(run.calls) : run.calls[i] = "npm publish"

----------------------------------------------------------------------------
(* Properties of scripts/platform/validate-package.sh *)

\* C25: validate-package.sh exits 0 if and only if no validation error was
\* counted: each missing required file (package.json, README.md, bin/<binary>), an
\* invalid or incomplete package.json, a package name mismatch, or a
\* non-executable binary on a non-win32 platform forces a nonzero exit, while
\* unexpected extra files and a non-executable binary on win32 never do.
C25_ExitCode ==
  run.pc = "done" =>
    /\ run.exit.code = 0 <=> (run.out = "PASSED" /\ run.errors = 0)
    /\ (\/ run.p.packageJson # "ok" \/ ~run.p.readme \/ run.p.binary = "missing"
        \/ run.p.missingFields # {} \/ ~run.p.nameMatches
        \/ (run.p.platform # "win32" /\ run.p.binary = "regular")) => run.exit.code # 0
    /\ (/\ run.p.args = "ok" /\ run.p.dirExists
        /\ run.p.packageJson = "ok" /\ run.p.missingFields = {} /\ run.p.nameMatches
        /\ run.p.osHasPlatform /\ run.p.filesHasBin /\ run.p.readme
        /\ \/ run.p.binary = "executable"
           \/ run.p.platform = "win32" /\ run.p.binary # "missing") => run.exit.code = 0

C25_Witness ==
  /\ run.pc = "done" /\ run.exit.code = 0 /\ run.out = "PASSED"
  /\ run.p.platform = "win32" /\ run.p.binary = "regular" /\ run.p.unexpectedFiles
  /\ run.warnings = {"Unexpected files found"}

----------------------------------------------------------------------------
(* Properties of parseVersion, compareVersions and filterReleases *)

\* -1, 0 or 1
Sign(n) == IF n < 0 THEN -1 ELSE IF n > 0 THEN 1 ELSE 0

\* the version strings of the fetched releases that are X.Y.Z[-prerelease]
ValidVersions ==
  {v \in {"1.6.0", "1.10.0", "1.6.0-rc1", "1.6.0-beta1", "2.0.0-alpha"} :
     \E i \in 1..Len(run.releases) : run.releases[i].version = v}

\* C26: filterReleases returns only releases whose version is a valid
\* X.Y.Z[-prerelease] string (prereleases excluded unless includePrerelease is
\* set), sorted newest first so that element 0 is the greatest version; on valid
\* versions compareVersions is a consistent ordering (antisymmetric and
\* transitive) that ranks a release above its own prereleases.
C26_FilterReleases ==
  /\ run.pc \in {"filtered", "done"} =>
       LET kept == {v \in ValidVersions :
                      run.options.includePrerelease \/ v \in {"1.6.0", "1.10.0"}}
       IN /\ {run.filtered[i].version : i \in 1..Len(run.filtered)} = kept
          /\ Len(run.filtered) =
               Cardinality({i \in 1..Len(run.releases) : run.releases[i].version \in kept})
          /\ \A i, j \in 1..Len(run.filtered) :
               i < j => compareVersions(run.filtered[i].version, run.filtered[j].version) <= 0
          /\ \A i \in 1..Len(run.filtered) :
               compareVersions(run.filtered[1].version, run.filtered[i].version) <= 0
  /\ \A a, b \in ValidVersions :
       /\ Sign(compareVersions(a, b)) = -Sign(compareVersions(b, a))
       /\ (compareVersions(a, b) = 0) <=> (a = b)
       /\ \A c \in ValidVersions :
            (compareVersions(a, b) <= 0 /\ compareVersions(b, c) <= 0) =>
              compareVersions(a, c) <= 0
  /\ \A p \in ValidVersions \cap {"1.6.0-rc1", "1.6.0-beta1"} :
       "1.6.0" \in ValidVersions =>
         (compareVersions("1.6.0", p) < 0 /\ compareVersions("1.10.0", p) < 0)

C26_Witness ==
  /\ run.pc = "done" /\ run.options.includePrerelease
  /\ run.releases = <<[version |-> "1.6.0-rc1"], [version |-> "1.10.0"], [version |-> "1.6.0"]>>
  /\ run.filtered = <<[version |-> "1.10.0"], [version |-> "1.6.0"], [version |-> "1.6.0-rc1"]>>
  /\ run.latest = Str("1.10.0")

----------------------------------------------------------------------------
(* Signals, binary placement and module resolution *)

\* C27: the CLI wrapper exits with code 0 only if the Terraform child process
\* itself exited with code 0; in particular a child that is terminated by a
\* signal (close event with a null code) does not make the wrapper exit 0.
C27_ZeroOnlyIfChildZero ==
  (pc = "exited" /\ exit.exited /\ exit.code = 0) => child = Num(0)


\* C28: for every supported platform key, the binary subpath the resolver
\* checks inside the platform package equals the location where the packaging
\* pipeline places the binary (bin/terraform, and bin/terraform.exe for win32), so
\* the access check of <package root>/<subpath> passes on a package built by
\* create-package-structure.sh.
C28_SubpathMatchesPlacement ==
  (pc # "start" /\ platformInfo.tag = "info") =>
    /\ platformInfo.subpath = "bin/" \o BINARY_NAME(host.platform)
    /\ platformInfo.subpath = PlacedBinary("pipeline", host.platform)
    /\ accessSync(FileModeAt(PathResolve(<<"node_modules", platformInfo.pkg>>,
                                         platformInfo.subpath),
                             platformInfo.pkg, "pipeline", host.platform, "exec"))


\* C29: a platform package assembled by create-package-structure.sh and
\* generate-package-json.js (a package.json without a main entry and with contents
\* limited to bin/) is locatable by require.resolve(<package name>), so with that
\* package installed the strict resolver does not fail with the package-not-found
\* error.
C29_PipelinePackageLocatable ==
  (/\ pkgLayout = "pipeline" /\ variant \in {"inline", "strict"}
   /\ Count("require.resolve") >= 1) =>
    /\ packagePath # NoPath
    /\ err.kind # "PackageNotFound"

====
